---- MODULE Spec2Model ----
(***************************************************************************)
(* A model of the command-line scripts of dataverse-recipes (python/).     *)
(* Each script runs top to bottom once: parse arguments, build a URL,      *)
(* fetch JSON, transform, print.  Text is modelled as a sequence of        *)
(* tokens: the two characters "<" and ">" are tokens of their own, every   *)
(* other token is a non-empty run of characters holding neither of them,   *)
(* so that re.sub('<[^<]+?>', '', s) acts on tokens as it acts on          *)
(* characters.                                                             *)
(***************************************************************************)
EXTENDS Integers, Sequences, FiniteSets, TLC

VARIABLES
    text,         \* strip harness: the string the strip step is applied to
    original,     \* strip harness: the string the harness started from
    passes,       \* strip harness: how many times the strip step was applied
    script,       \* which script this run executes
    args,         \* argparse's namespace (args.api_token is reassigned by the scripts)
    environ,      \* os.environ, the variables the scripts read
    pc,           \* the position of the run in main()
    stdout,       \* the lines printed so far, each with the source line that printed it
    exit_status,  \* the process's exit status, "none" while it runs
    raised,       \* the uncaught exception that ended the run, <<>> when none
    requests,     \* the number of urlopen calls issued so far
    json_raw,     \* notifications.py: the notification list of the fetched response
    cursor,       \* notifications.py: how many notifications the for loop has taken
    desired_month,  \* metrics scripts: the datetime the window starts at
    url,          \* the URL construct_url returned
    croissant_raw,  \* download_draft_croissant.py: the parsed export
    files,        \* download_draft_croissant.py: the files written, name and content
    ws,           \* create-datasets-from-excel.py: the data rows of the worksheet
    row,          \* create-datasets-from-excel.py: the row the for loop is at, 0 before the first
    pid,          \* create-datasets-from-excel.py: the persistentId the create returned
    dataset,      \* create-datasets-from-excel.py: the dataset load_dataset returned
    server,       \* the datasets of the Dataverse collection, by persistent id
    calls,        \* the calls made to the server and to time.sleep, over all runs
    run,          \* which run of the script this is
    today,        \* pid_reports: datetime.now(), the date the script is started on
    statefile,    \* dcpidreport.py: the content of dcpidreportstate, <<>> when absent
    logfile,      \* pidreport.py: the lines of the month's PID failure log
    processmonth, \* dcpidreport.py: the month the loop is at
    currentmonth, \* dcpidreport.py: the last day of the month before now
    found,        \* dcpidreport.py: no download has failed with an HTTP error
    somereports,  \* dcpidreport.py: a report listed failures of the account
    monthstr,     \* dcpidreport.py: the month of the last iteration, <<>> while unbound
    mail,         \* pid_reports: message, the text of the mail being composed
    sent,         \* pid_reports: the mails sent
    events,       \* dcpidreport.py: the reads, downloads, parses and writes so far
    cloned,       \* num_installations_git.py: the directory dataverse-installations exists
    head,         \* the clone's HEAD: 0 on branch main, else the commit checked out detached
    local_main,   \* the commit the clone's branch main points to
    remote_main,  \* the commit main points to on GitHub
    requested_date,  \* num_installations_git.py: the date asked for
    commit_hash,  \* num_installations_git.py: what get_commit_hash returned, 0 for ""
    data,         \* num_installations_git.py: the parsed data/data.json
    commands      \* the git commands and file reads so far, over all runs

stripVars == <<text, original, passes>>

notifVars == <<json_raw, cursor>>

metricsVars == <<desired_month, url>>

croissantVars == <<croissant_raw, files>>

runVars == <<script, args, environ, pc, stdout, exit_status, raised, requests,
             json_raw, cursor, desired_month, url, croissant_raw, files>>

cliVars == <<requests, notifVars, metricsVars, croissantVars>>

bulkVars == <<ws, row, pid, dataset, server, calls, run>>

pidVars == <<today, statefile, logfile, processmonth, currentmonth, found, somereports,
             monthstr, mail, sent, events>>

gitVars == <<cloned, head, local_main, remote_main, requested_date, commit_hash, data,
             commands>>

jobVars == <<bulkVars, pidVars, gitVars>>

vars == <<text, original, passes, script, args, environ, pc, stdout, exit_status,
          raised, requests, json_raw, cursor, desired_month, url, croissant_raw,
          files, ws, row, pid, dataset, server, calls, run, today, statefile, logfile,
          processmonth, currentmonth, found, somereports, monthstr, mail, sent,
          events, cloned, head, local_main, remote_main, requested_date, commit_hash,
          data, commands>>

(***************************************************************************)
(* Bounds of the model.                                                    *)
(***************************************************************************)
MaxLen == 6          \* longest input string of the strip harness
MaxPasses == 2       \* strip applications per run of the strip harness
MaxNotifications == 2  \* longest notification list of a response
FirstYear == 2024    \* first year of the months the metrics scripts are run for
YearSpan == 2        \* how many years after FirstYear they are run for
MaxInstallations == 2  \* longest installation list of a hub response
MaxRows == 2         \* most data rows of the worksheet
MaxRuns == 2         \* how many times the bulk creator is run on the worksheet
MaxBacklog == 2      \* most months the DataCite state file lags behind
MaxLogLines == 2     \* most data lines of the PID failure log
MaxCommits == 3      \* most commits on main of dataverse-installations

(***************************************************************************)
(* notifications.py:155   message = re.sub('<[^<]+?>', '', message)        *)
(***************************************************************************)
LT == "<"
GT == ">"

\* The end of the match of '<[^<]+?>' that starts at i, 0 when there is none:
\* s[i] is "<", then one or more tokens other than "<" (as few as possible),
\* then ">".
MatchEnd(s, i) ==
    LET ends == { j \in (i + 2)..Len(s) :
                    /\ s[j] = GT
                    /\ \A k \in (i + 1)..(j - 1) : s[k] # LT }
    IN  IF i <= Len(s) /\ s[i] = LT /\ ends # {}
        THEN CHOOSE j \in ends : \A k \in ends : j <= k
        ELSE 0

RECURSIVE StripFrom(_, _)
\* re.sub scans left to right; a match is dropped and the scan goes on after it.
StripFrom(s, i) ==
    IF i > Len(s) THEN <<>>
    ELSE LET end == MatchEnd(s, i)
         IN  IF end # 0 THEN StripFrom(s, end + 1)
             ELSE <<s[i]>> \o StripFrom(s, i + 1)

\* A strip that drops only the first match (re.sub(..., count=1)).
StripFirstOnly(s) ==
    LET starts == { i \in 1..Len(s) : MatchEnd(s, i) # 0 }
    IN  IF starts = {} THEN s
        ELSE LET i == CHOOSE x \in starts : \A y \in starts : x <= y
             IN  SubSeq(s, 1, i - 1) \o SubSeq(s, MatchEnd(s, i) + 1, Len(s))

Strip(s) == StripFrom(s, 1)

\* Whether the pattern matches anywhere in s.
HasTag(s) == \E i \in 1..Len(s) : MatchEnd(s, i) # 0

(***************************************************************************)
(* Strip harness: the strip step applied to any string, again and again.   *)
(***************************************************************************)
Alphabet == {LT, GT, "a"}

RECURSIVE Strings(_)
Strings(n) ==
    IF n = 0 THEN {<<>>}
    ELSE LET shorter == Strings(n - 1)
         IN  shorter \cup { Append(s, c) : s \in { t \in shorter : Len(t) = n - 1 },
                                           c \in Alphabet }

None == "None"                      \* Python's None
Truthy(x) == x \notin {None, ""}    \* `if x:` for an optional string

\* No datetime: the variable is still None, or the call raised ValueError.
NoDate == [year |-> 0, month |-> 0]

\* No response was parsed yet (json_raw is unset).
NoResponse == [status |-> "unset", data |-> [notifications |-> <<>>]]

\* No export was parsed yet (croissant_raw is unset).
NoDocument == [name |-> ""]

\* The scripts' variables while the strip harness runs.
RunIdle ==
    /\ script = "none"
    /\ args = <<>>
    /\ environ = <<>>
    /\ pc = "idle"
    /\ stdout = <<>>
    /\ exit_status = "none"
    /\ raised = <<>>
    /\ requests = 0
    /\ json_raw = NoResponse
    /\ cursor = 0
    /\ desired_month = NoDate
    /\ url = <<>>
    /\ croissant_raw = NoDocument
    /\ files = <<>>

\* A dataset object not loaded yet.
NoDataset == [p_id |-> 0]

\* The variables of create-datasets-from-excel.py while another script runs.
BulkIdle ==
    /\ ws = <<>>
    /\ row = 0
    /\ pid = 0
    /\ dataset = NoDataset
    /\ server = <<>>
    /\ calls = <<>>
    /\ run = 0

\* No PID failure log.
NoLog == [exists |-> FALSE, lines |-> <<>>]

\* A datetime not set yet.
NoDay == [year |-> 0, month |-> 0, day |-> 0]

\* The variables of the PID report scripts while another script runs.
PidIdle ==
    /\ today = NoDay
    /\ statefile = <<>>
    /\ logfile = NoLog
    /\ processmonth = NoDay
    /\ currentmonth = NoDay
    /\ found = TRUE
    /\ somereports = FALSE
    /\ monthstr = <<>>
    /\ mail = <<>>
    /\ sent = <<>>
    /\ events = <<>>

\* No data file loaded.
NoData == [installations |-> <<>>]

\* The variables of num_installations_git.py while another script runs.
GitIdle ==
    /\ cloned = FALSE
    /\ head = 0
    /\ local_main = 0
    /\ remote_main = 0
    /\ requested_date = NoDay
    /\ commit_hash = 0
    /\ data = NoData
    /\ commands = <<>>

JobsIdle == BulkIdle /\ PidIdle /\ GitIdle

StripInit ==
    /\ original \in Strings(MaxLen)
    /\ text = original
    /\ passes = 0
    /\ RunIdle
    /\ JobsIdle

StripStep ==
    /\ passes < MaxPasses
    /\ text' = Strip(text)
    /\ passes' = passes + 1
    /\ UNCHANGED <<original, runVars, jobVars>>

StripNext == StripStep

SpecStrip == StripInit /\ [][StripNext]_vars

(***************************************************************************)
(* Shared helpers for the scripts' runs.                                   *)
(***************************************************************************)
\* One printed line: the source line of the print call, the text, and the
\* index of the notification whose loop iteration printed it (0 outside the
\* loop).
Line(src, txt, item) == [src |-> src, text |-> txt, item |-> item]

RECURSIVE Concat(_)
Concat(ss) == IF ss = <<>> THEN <<>> ELSE Head(ss) \o Concat(Tail(ss))

\* Whether t occurs in s as a contiguous run of tokens.
Contains(s, t) ==
    \E i \in 0..(Len(s) - Len(t)) : SubSeq(s, i + 1, i + Len(t)) = t

(***************************************************************************)
(* notifications.py: the notification records an API response can hold.    *)
(* A record is a mapping from field names to strings, like the JSON object *)
(* it is parsed from.                                                      *)
(***************************************************************************)
TemplatedTypes ==
    {"ASSIGNROLE", "SUBMITTEDDS", "CREATEACC", "REQUESTFILEACCESS", "RETURNEDDS"}

\* CREATEDV is a notification type the dispatch has no branch for.
Types == TemplatedTypes \cup {"CREATEDV"}

\* The payload fields each branch of the dispatch reads, in the order read.
ReadFields(type) ==
    CASE type = "SUBMITTEDDS" ->
           <<"datasetTitle", "requestorFirstName", "requestorLastName",
             "requestorEmail", "datasetRelativeUrlToRootWithSpa",
             "parentCollectionName", "parentCollectionRelativeUrlToRootWithSpa">>
      [] type = "CREATEACC" -> <<"installationBrandName", "userGuideUrl">>
      [] type = "REQUESTFILEACCESS" ->
           <<"manageFilePermissionsRelativeUrlToRootWithSpa", "datasetTitle",
             "requestorFirstName", "requestorLastName", "requestorEmail">>
      [] type = "RETURNEDDS" ->
           <<"datasetTitle", "datasetRelativeUrlToRootWithSpa",
             "parentCollectionName", "parentCollectionRelativeUrlToRootWithSpa">>
      [] OTHER -> <<>>

Range(f) == { f[i] : i \in DOMAIN f }

\* The order of the keys in a record of the response.
KeyOrder ==
    <<"type", "sentTimestamp", "messageText", "installationBrandName",
      "userGuideUrl", "manageFilePermissionsRelativeUrlToRootWithSpa",
      "datasetTitle", "datasetRelativeUrlToRootWithSpa", "parentCollectionName",
      "parentCollectionRelativeUrlToRootWithSpa", "requestorFirstName",
      "requestorLastName", "requestorEmail">>

Anchor(href, title, body) ==
    <<LT, "a href=\"">> \o href \o <<"\" title=\"">> \o title \o <<"\"", GT>>
        \o body \o <<LT, "/a", GT>>

\* The messageText the server sends for a notification of each type.
ServerMessageText(type) ==
    CASE type = "CREATEDV" ->
           Anchor(<<"/dataverse/pdurbin">>, <<"Philip Durbin Dataverse">>,
                  <<"Philip Durbin Dataverse">>)
           \o <<" was created in ">>
           \o Anchor(<<"/dataverse/demo">>, <<"Demo Dataverse">>, <<"Demo Dataverse">>)
           \o <<" . To learn more about what you can do with your dataverse, check out the User Guide.">>
      [] type = "ASSIGNROLE" ->
           <<"You have been granted the Admin role for ">>
           \o Anchor(<<"/dataverse/root">>, <<"Root">>, <<"Root">>) \o <<".">>
      [] OTHER -> <<"Notification of type ", type, " from the server.">>

\* The value the response carries for a field of a record of a type.
FieldValue(type, key) ==
    CASE key = "type" -> <<type>>
      [] key = "sentTimestamp" -> <<"2025-09-13T18:31:54Z">>
      [] key = "messageText" -> ServerMessageText(type)
      [] key = "datasetTitle" -> <<"Darwin's Finches">>
      [] key = "datasetRelativeUrlToRootWithSpa" ->
           <<"/spa/datasets?persistentId=doi:10.5072/FK2/Y733KJ">>
      [] key = "parentCollectionName" -> <<"dv085f7b38">>
      [] key = "parentCollectionRelativeUrlToRootWithSpa" ->
           <<"/spa/collections/dv085f7b38">>
      [] key = "requestorFirstName" -> <<"Ada">>
      [] key = "requestorLastName" -> <<"Lovelace">>
      [] key = "requestorEmail" -> <<"usercc149b2d@mailinator.com">>
      [] key = "installationBrandName" -> <<"Demo Repository">>
      [] key = "userGuideUrl" ->
           <<"https://guides.dataverse.org/en/6.7/user/index.html">>
      [] key = "manageFilePermissionsRelativeUrlToRootWithSpa" ->
           <<"/spa/files/permissions?id=42">>

AllKeys(type) == {"type", "sentTimestamp", "messageText"} \cup Range(ReadFields(type))

\* The sets of fields a record of a type may lack: none, the payload field
\* its branch reads last, or messageText together with every payload field.
MissingPatterns(type) ==
    LET fields == ReadFields(type)
    IN  {{}} \cup (IF fields = <<>> THEN {} ELSE {{fields[Len(fields)]}})
             \cup {{"messageText"} \cup Range(fields)}

RecordOf(type, missing) ==
    [k \in AllKeys(type) \ missing |-> FieldValue(type, k)]

\* Every record a response may hold; the last four lack the payload field
\* read first, the type tag, the timestamp, and every field.
NotificationPool ==
    UNION { { RecordOf(t, m) : m \in MissingPatterns(t) } : t \in Types }
    \cup {RecordOf("SUBMITTEDDS", {"datasetTitle"}),
          RecordOf("CREATEDV", {"type"}), RecordOf("CREATEDV", {"sentTimestamp"}),
          RecordOf("CREATEDV", AllKeys("CREATEDV"))}

NotificationLists == UNION { [1..n -> NotificationPool] : n \in 0..MaxNotifications }

(***************************************************************************)
(* notifications.py:70-158   the body of the for loop, one notification.   *)
(***************************************************************************)
Has(notification, key) == key \in DOMAIN notification

\* print(notification): the dict's repr, its keys in the response's order.
Repr(notification) ==
    LET Item(k) == IF Has(notification, k)
                   THEN <<"'", k, "': '">> \o notification[k] \o <<"', ">>
                   ELSE <<>>
    IN  <<"{">> \o Concat([i \in 1..Len(KeyOrder) |-> Item(KeyOrder[i])]) \o <<"}">>

\* The message printed without the timestamp.
WithoutTimestamp(message, notification) == message

\* f"{message} {notification['sentTimestamp']}"
WithTimestamp(message, notification) ==
    message \o <<" ">> \o notification["sentTimestamp"]

\* A template that names the collection without linking it.
TemplateNoAnchor(type, n) ==
    <<"You have been granted the ",
      "FIXME---Admin/Dataverse + Dataset Creator---FIXME", " role for ", "Root", ".">>

\* The message each branch of the dispatch builds (lines 93, 112, 123, 135, 151).
Template(type, n) ==
    CASE type = "ASSIGNROLE" ->
           <<"You have been granted the ",
             "FIXME---Admin/Dataverse + Dataset Creator---FIXME", " role for ">>
           \o Anchor(<<"/dataverse/root">>, <<"Root">>, <<"Root">>) \o <<".">>
      [] type = "SUBMITTEDDS" ->
           Anchor(n["datasetRelativeUrlToRootWithSpa"], n["datasetTitle"],
                  n["datasetTitle"])
           \o <<" was submitted for review to be published in ">>
           \o Anchor(n["parentCollectionRelativeUrlToRootWithSpa"],
                     n["parentCollectionName"], n["parentCollectionName"])
           \o <<". Don't forget to publish it or send it back to the contributor, ">>
           \o n["requestorFirstName"] \o <<" ">> \o n["requestorLastName"]
           \o <<" (">> \o n["requestorEmail"] \o <<")!">>
      [] type = "CREATEACC" ->
           <<"Welcome to ">> \o n["installationBrandName"]
           \o <<"! Get started by adding or finding data. Have questions? Check out the ">>
           \o <<LT, "a href=\"">> \o n["userGuideUrl"]
           \o <<"\" title=\"User Guide\" target=\"_blank\"", GT, "User Guide",
                LT, "/a", GT>>
           \o <<". Want to test out Dataverse features? Use our ">>
           \o <<LT, "a href=\"", "https://demo.dataverse.org", "\"", GT, "Demo Site",
                LT, "/a", GT>>
           \o <<". Also, check for your welcome email to verify your address.">>
      [] type = "REQUESTFILEACCESS" ->
           <<"File access requested for dataset: ">>
           \o Anchor(<<"/permissions-manage-files.xhtml?id=110">>, n["datasetTitle"],
                     n["datasetTitle"])
           \o <<" was made by ">>
           \o n["requestorFirstName"] \o <<" ">> \o n["requestorLastName"]
           \o <<" (">> \o n["requestorEmail"] \o <<").">>
      [] type = "RETURNEDDS" ->
           Anchor(n["datasetRelativeUrlToRootWithSpa"], n["datasetTitle"],
                  n["datasetTitle"])
           \o <<" was returned by the curator of ">>
           \o Anchor(n["parentCollectionRelativeUrlToRootWithSpa"],
                     n["parentCollectionName"], n["parentCollectionName"])
           \o <<".">>

\* The source line of the print call that ends each branch.
BranchPrintLine(type) ==
    CASE type = "ASSIGNROLE" -> 94
      [] type = "SUBMITTEDDS" -> 113
      [] type = "CREATEACC" -> 127
      [] type = "REQUESTFILEACCESS" -> 137
      [] type = "RETURNEDDS" -> 153

\* The first field of the branch's reads that the record lacks, "" when none.
FirstMissing(type, n) ==
    LET fields == ReadFields(type)
        lacking == { i \in 1..Len(fields) : ~Has(n, fields[i]) }
    IN  IF lacking = {} THEN ""
        ELSE fields[CHOOSE i \in lacking : \A j \in lacking : i <= j]

\* notifications.py:73: the value message starts every iteration with.
Fallback ==
    <<"The dataverse, dataset, or file for this notification has been deleted.">>

\* An iteration without the messageText test: it looks the type up first and
\* prints the fallback message.
RenderIterationUnguarded(n, item) ==
    IF ~Has(n, "type") THEN [out |-> <<>>, error |-> "type", message |-> Fallback]
    ELSE [out |-> <<Line(156, Fallback, item), Line(157, <<>>, item),
                    Line(158, <<>>, item)>>,
          error |-> "", message |-> Fallback]

\* One iteration of the loop on record n, the item-th of the list: the lines it
\* prints, the key whose lookup raised KeyError ("" when none did), and the
\* value of the local variable message when the iteration ends.
RenderIteration(n, item) ==
    IF ~Has(n, "messageText") THEN [out |-> <<>>, error |-> "", message |-> Fallback]
    ELSE
    LET l75 == <<Line(75, Repr(n), item)>>
    IN  IF ~Has(n, "type") THEN [out |-> l75, error |-> "type", message |-> Fallback]
        ELSE IF ~Has(n, "sentTimestamp")
        THEN [out |-> l75, error |-> "sentTimestamp", message |-> n["messageText"]]
        ELSE
        LET type == n["type"][1]
            start == l75 \o <<Line(78, WithTimestamp(n["messageText"], n), item),
                              Line(79, <<>>, item), Line(82, <<>>, item)>>
        IN  IF FirstMissing(type, n) # ""
            THEN [out |-> start, error |-> FirstMissing(type, n),
                  message |-> n["messageText"]]
            ELSE
            LET message == IF type \in TemplatedTypes THEN Template(type, n)
                           ELSE n["messageText"]
                branch == IF type \in TemplatedTypes
                          THEN <<Line(BranchPrintLine(type),
                                      WithTimestamp(message, n), item),
                                 Line(BranchPrintLine(type) + 1, <<>>, item)>>
                          ELSE <<>>
            IN  [out |-> start \o branch
                         \o <<Line(156, WithTimestamp(Strip(message), n), item),
                              Line(157, <<>>, item), Line(158, <<>>, item)>>,
                 error |-> "", message |-> Strip(message)]

(***************************************************************************)
(* notifications.py: main() and fetch_notifications().                     *)
(***************************************************************************)
\* json.dumps escapes the double quotes inside a string.
JsonEscape(token) ==
    CASE token = "a href=\"" -> "a href=\\\""
      [] token = "\" title=\"" -> "\\\" title=\\\""
      [] token = "\"" -> "\\\""
      [] OTHER -> token

JsonString(value) ==
    <<"\"">> \o [i \in 1..Len(value) |-> JsonEscape(value[i])] \o <<"\"">>

JsonObject(notification) ==
    LET Item(k) == IF Has(notification, k)
                   THEN JsonString(<<k>>) \o <<": ">> \o JsonString(notification[k])
                        \o <<",\n">>
                   ELSE <<>>
    IN  <<"{\n">> \o Concat([i \in 1..Len(KeyOrder) |-> Item(KeyOrder[i])]) \o <<"}">>

\* json.dumps(json_raw, indent=2)
JsonDumps(notifications) ==
    <<"{\n  \"data\": {\n    \"notifications\": [">>
    \o Concat([i \in 1..Len(notifications) |-> JsonObject(notifications[i])])
    \o <<"]\n  }\n}">>

\* print(json_raw): the repr of the parsed response.
ReprResponse(notifications) ==
    <<"{'data': {'notifications': [">>
    \o Concat([i \in 1..Len(notifications) |-> Repr(notifications[i]) \o <<", ">>])
    \o <<"]}}">>

\* if args.verbose: print(...)
VerboseAlways(verbose, line) == <<line>>

VerbosePrint(verbose, line) == IF verbose THEN <<line>> ELSE <<>>

\* notifications.py:180
NotificationsUrl(base_url) == <<base_url, "/api/notifications/all">>

\* What urlopen and json.loads can do with one request.
FetchOutcomes == {"ok", "HTTPError", "URLError", "JSONDecodeError"}

\* What went wrong in a failed fetch: e.reason of an HTTPError (401) and of a
\* plain URLError (connection refused), str(e) of a JSONDecodeError.
FailureReason(outcome) ==
    CASE outcome = "HTTPError" -> "Unauthorized"
      [] outcome = "URLError" -> "[Errno 111] Connection refused"
      [] outcome = "JSONDecodeError" -> "Expecting value: line 1 column 1 (char 0)"

\* sys.exit(status), or an uncaught exception (status 1 and a traceback).
Exit(status, exception) ==
    /\ pc' = "exited"
    /\ exit_status' = status
    /\ raised' = exception

\* A token check that reports the missing token and goes on to fetch.
CheckTokenWarnOnly(src) ==
    /\ pc = "check_token"
    /\ LET token == IF Truthy(args.api_token) THEN args.api_token
                    ELSE environ.API_TOKEN
       IN  /\ args' = [args EXCEPT !.api_token = token]
           /\ stdout' = IF Truthy(token) THEN stdout
                        ELSE Append(stdout, Line(src, <<"Error: API token is required.">>, 0))
    /\ pc' = "fetch"
    /\ UNCHANGED <<script, environ, exit_status, raised, requests, notifVars,
                   metricsVars, croissantVars, stripVars, jobVars>>

\* The token check notifications.py and download_draft_croissant.py share:
\* without --api_token the token is read from API_TOKEN; without both the
\* script prints and exits 1.
CheckToken(src) ==
    /\ pc = "check_token"
    /\ LET token == IF Truthy(args.api_token) THEN args.api_token
                    ELSE environ.API_TOKEN
       IN  /\ args' = [args EXCEPT !.api_token = token]
           /\ IF Truthy(token)
              THEN /\ pc' = "fetch"
                   /\ UNCHANGED <<stdout, exit_status, raised>>
              ELSE /\ stdout' = Append(stdout,
                        Line(src, <<"Error: API token is required. Provide it via the --api_token argument or the API_TOKEN environment variable.">>, 0))
                   /\ Exit("1", <<>>)
    /\ UNCHANGED <<script, environ, requests, notifVars, metricsVars, croissantVars,
                   stripVars, jobVars>>

\* notifications.py:43-50
NotificationsCheckToken == script = "notifications" /\ CheckToken(47)

\* notifications.py:52-68 and 184-201: build the URL, fetch once, print the
\* response when verbose.
NotificationsFetch ==
    /\ script = "notifications"
    /\ pc = "fetch"
    /\ requests' = requests + 1
    /\ url' = NotificationsUrl(args.base_url)
    /\ LET u == NotificationsUrl(args.base_url)
           l55 == VerbosePrint(args.verbose,
                               Line(55, <<"Fetching notifications from ">> \o u, 0))
       IN  \E outcome \in FetchOutcomes :
             CASE outcome = "ok" ->
                    \E notifications \in NotificationLists :
                      /\ json_raw' = [status |-> "OK",
                                       data |-> [notifications |-> notifications]]
                      /\ stdout' = stdout \o l55 \o
                           VerbosePrint(args.verbose,
                                        Line(68, IF args.ugly
                                                 THEN ReprResponse(notifications)
                                                 ELSE JsonDumps(notifications), 0))
                      /\ pc' = "loop"
                      /\ UNCHANGED <<exit_status, raised>>
               [] outcome = "HTTPError" ->
                    \* URLError caught at line 191; HTTPError has reason and readlines
                    /\ stdout' = stdout \o l55 \o
                         <<Line(192, <<"Error: Unable to fetch URL ">> \o u
                                     \o <<". Reason: ", FailureReason(outcome), ". Message: ", "[]">>, 0)>>
                    /\ Exit("1", <<>>)
                    /\ UNCHANGED json_raw
               [] outcome = "URLError" ->
                    \* a plain URLError has no readlines: line 193 raises
                    \* AttributeError, which line 199 catches
                    /\ stdout' = stdout \o l55 \o
                         <<Line(200, <<"Error fetching notifications from ">> \o u
                                     \o <<": ", "'URLError' object has no attribute 'readlines'">>, 0)>>
                    /\ Exit("1", <<>>)
                    /\ UNCHANGED json_raw
               [] outcome = "JSONDecodeError" ->
                    /\ stdout' = stdout \o l55 \o
                         <<Line(200, <<"Error fetching notifications from ">> \o u
                                     \o <<": ", FailureReason(outcome)>>, 0)>>
                    /\ Exit("1", <<>>)
                    /\ UNCHANGED json_raw
    /\ UNCHANGED <<script, args, environ, cursor, desired_month, croissantVars,
                   stripVars, jobVars>>

\* A loop that skips a record equal to one it has already taken.
NotificationsRenderDedup ==
    /\ script = "notifications"
    /\ pc = "loop"
    /\ cursor < Len(json_raw.data.notifications)
    /\ LET list == json_raw.data.notifications
           r == RenderIteration(list[cursor + 1], cursor + 1)
           seen == \E j \in 1..cursor : list[j] = list[cursor + 1]
       IN  /\ stdout' = IF seen THEN stdout ELSE stdout \o r.out
           /\ IF r.error = "" \/ seen
              THEN /\ cursor' = cursor + 1
                   /\ UNCHANGED <<pc, exit_status, raised>>
              ELSE /\ Exit("1", <<"KeyError", r.error>>)
                   /\ UNCHANGED cursor
    /\ UNCHANGED <<script, args, environ, requests, json_raw, url, desired_month,
                   croissantVars, stripVars, jobVars>>

\* A loop that catches the KeyError of a record and goes on with the next.
NotificationsRenderSkipErrors ==
    /\ script = "notifications"
    /\ pc = "loop"
    /\ cursor < Len(json_raw.data.notifications)
    /\ stdout' = stdout \o
         RenderIteration(json_raw.data.notifications[cursor + 1], cursor + 1).out
    /\ cursor' = cursor + 1
    /\ UNCHANGED <<script, args, environ, pc, exit_status, raised, requests, json_raw,
                   url, desired_month, croissantVars, stripVars, jobVars>>

\* notifications.py:70-158: one iteration of the for loop.
NotificationsRender ==
    /\ script = "notifications"
    /\ pc = "loop"
    /\ cursor < Len(json_raw.data.notifications)
    /\ LET r == RenderIteration(json_raw.data.notifications[cursor + 1], cursor + 1)
       IN  /\ stdout' = stdout \o r.out
           /\ IF r.error = ""
              THEN /\ cursor' = cursor + 1
                   /\ UNCHANGED <<pc, exit_status, raised>>
              ELSE /\ Exit("1", <<"KeyError", r.error>>)
                   /\ UNCHANGED cursor
    /\ UNCHANGED <<script, args, environ, requests, json_raw, metricsVars,
                   croissantVars, stripVars, jobVars>>

\* notifications.py:70, 205: the loop is exhausted and main() returns.
NotificationsFinish ==
    /\ script = "notifications"
    /\ pc = "loop"
    /\ cursor = Len(json_raw.data.notifications)
    /\ Exit("0", <<>>)
    /\ UNCHANGED <<script, args, environ, stdout, requests, notifVars, metricsVars,
                   croissantVars, stripVars, jobVars>>

(***************************************************************************)
(* metrics/num_installations.py and metrics/site_metrics.py: dates.        *)
(* A date string is a sequence of characters; a datetime is a record of    *)
(* the year and the month (the day is always 1 or unused).                 *)
(***************************************************************************)
DigitChars == { ToString(d) : d \in 0..9 }

DigitValue(c) == CHOOSE d \in 0..9 : ToString(d) = c

RECURSIVE Number(_)
\* int() of a run of digit characters.
Number(cs) ==
    IF cs = <<>> THEN 0
    ELSE 10 * Number(SubSeq(cs, 1, Len(cs) - 1)) + DigitValue(cs[Len(cs)])

\* n written with exactly `width` digits, zero-padded.
ZeroPad(n, width) ==
    [i \in 1..width |-> ToString((n \div (10 ^ (width - i))) % 10)]

\* datetime(year, month, 1): ValueError outside datetime's range.
Datetime(year, month) ==
    IF year \in 1..9999 /\ month \in 1..12
    THEN [year |-> year, month |-> month]
    ELSE NoDate

\* datetime.strptime(date_str, "%Y-%m"): four digits, "-", one or two digits.
Strptime(date_str) ==
    IF /\ Len(date_str) \in {6, 7}
       /\ \A i \in 1..4 : date_str[i] \in DigitChars
       /\ date_str[5] = "-"
       /\ \A i \in 6..Len(date_str) : date_str[i] \in DigitChars
    THEN Datetime(Number(SubSeq(date_str, 1, 4)),
                  Number(SubSeq(date_str, 6, Len(date_str))))
    ELSE NoDate

\* dt.strftime("%Y-%m")
Strftime(dt) == ZeroPad(dt.year, 4) \o <<"-">> \o ZeroPad(dt.month, 2)

\* The rollover that forgets to advance the year.
NextMonthSameYear(dm) ==
    Datetime(dm.year,
             IF dm.month + 1 > 12 THEN 1 ELSE dm.month + 1)

\* num_installations.py:59-64, site_metrics.py:83-88
NextMonth(dm) ==
    LET month == dm.month + 1
    IN  IF month > 12 THEN Datetime(dm.year + 1, 1)
        ELSE Datetime(dm.year, month)

MetricsEndpoint == "https://hub.dataverse.org/api/installation/metrics/monthly"

\* num_installations.py:57-70
NumInstallationsConstructUrl(dm) ==
    IF NextMonth(dm) = NoDate THEN <<"ValueError">>
    ELSE <<MetricsEndpoint, "?fromDate=">> \o Strftime(dm)
         \o <<"&toDate=">> \o Strftime(NextMonth(dm))

\* site_metrics.py:81-92
SiteMetricsConstructUrl(dm, dv_hub_id) ==
    IF NextMonth(dm) = NoDate THEN <<"ValueError">>
    ELSE <<MetricsEndpoint, "?fromDate=">> \o Strftime(dm)
         \o <<"&toDate=">> \o Strftime(NextMonth(dm))
         \o <<"&dvHubId=", dv_hub_id>>

\* The months the runs are given, on the command line or by the clock.
Years == FirstYear..(FirstYear + YearSpan)

Clock == { Datetime(y, m) : y \in Years, m \in 1..12 }

\* What --date may hold: absent, a month (00 and 13 included), or a day.
DateArgs ==
    {<<>>} \cup { ZeroPad(y, 4) \o <<"-">> \o ZeroPad(m, 2) : y \in Years, m \in 0..13 }
           \cup { ZeroPad(FirstYear, 4) \o <<"-", "0", "3", "-", "1", "5">> }

(***************************************************************************)
(* The installations a hub response lists.                                 *)
(***************************************************************************)
Installation(name, id, host) == [name |-> name, dvHubId |-> id, hostname |-> host]

Installations ==
    {Installation("Harvard Dataverse", "DVN_HARVARD_DATAVERSE_2008", "dataverse.harvard.edu"),
     Installation("aussda", "DVN_AUSSDA_2017", "data.aussda.at"),
     Installation("DaRUS", "DVN_DARUS_2019", "darus.uni-stuttgart.de")}

\* name.lower()
Lower(name) ==
    CASE name = "Harvard Dataverse" -> "harvard dataverse"
      [] name = "DaRUS" -> "darus"
      [] OTHER -> name

\* The order of the lower-cased names as strings.
LowerOrder == <<"aussda", "darus", "harvard dataverse">>

KeyRank(name) == CHOOSE i \in 1..Len(LowerOrder) : LowerOrder[i] = Lower(name)

\* The lists without repetition of at most n installations, in any order.
RECURSIVE InstallationLists(_)
InstallationLists(n) ==
    IF n = 0 THEN {<<>>}
    ELSE LET shorter == InstallationLists(n - 1)
         IN  shorter \cup UNION { { Append(l, i) : i \in Installations \ Range(l) } :
                                  l \in { x \in shorter : Len(x) = n - 1 } }

RECURSIVE Sorted(_)
\* sorted(sites, key=lambda x: x["name"].lower())
Sorted(sites) ==
    IF sites = <<>> THEN <<>>
    ELSE LET first == CHOOSE i \in 1..Len(sites) :
                        \A j \in 1..Len(sites) :
                          KeyRank(sites[i].name) <= KeyRank(sites[j].name)
         IN  <<sites[first]>>
             \o Sorted(SubSeq(sites, 1, first - 1) \o SubSeq(sites, first + 1, Len(sites)))

(***************************************************************************)
(* metrics/site_metrics.py: main().                                        *)
(***************************************************************************)
HubUrl == <<"https://hub.dataverse.org/api/installation">>

\* site_metrics.py:34-38: --list fetches the hub's installations and prints
\* them sorted by name.
SiteMetricsList ==
    /\ script = "site_metrics"
    /\ pc = "start"
    /\ args.list
    /\ requests' = requests + 1
    /\ \E outcome \in {"ok", "error"} :
         IF outcome = "ok"
         THEN \E sites \in InstallationLists(MaxInstallations) :
                /\ stdout' = stdout \o
                     [i \in 1..Len(sites) |->
                        Line(37, <<Sorted(sites)[i].dvHubId, " ", Sorted(sites)[i].name,
                                   " ", Sorted(sites)[i].hostname>>, 0)]
                /\ Exit("0", <<>>)
         ELSE /\ stdout' = Append(stdout,
                   Line(102, <<"Error fetching metrics from ">> \o HubUrl
                              \o <<": ", "<urlopen error ", FailureReason("URLError"), ">">>, 0))
              /\ Exit("1", <<>>)
    /\ UNCHANGED <<script, args, environ, notifVars, metricsVars, croissantVars,
                   stripVars, jobVars>>

\* site_metrics.py:40-47
SiteMetricsCheckId ==
    /\ script = "site_metrics"
    /\ pc = "start"
    /\ ~args.list
    /\ IF Truthy(args.id)
       THEN /\ pc' = "parse_date"
            /\ UNCHANGED <<stdout, exit_status, raised>>
       ELSE /\ stdout' = Append(stdout,
                 Line(46, <<"You put provide an ID. See -h for help.">>, 0))
            /\ Exit("1", <<>>)
    /\ UNCHANGED <<script, args, environ, requests, notifVars, metricsVars,
                   croissantVars, stripVars, jobVars>>

\* The date step both metrics scripts share: parse_date(args.date) when a date
\* was given (a ValueError prints and exits 1), datetime.now() otherwise.
ParseDate(src) ==
    /\ pc = "parse_date"
    /\ IF args.date # <<>>
       THEN IF Strptime(args.date) = NoDate
            THEN /\ stdout' = Append(stdout,
                      Line(src, <<"Invalid date format: ">> \o args.date
                                \o <<". Expected format is YYYY-MM.">>, 0))
                 /\ Exit("1", <<>>)
                 /\ UNCHANGED desired_month
            ELSE /\ desired_month' = Strptime(args.date)
                 /\ pc' = "construct_url"
                 /\ UNCHANGED <<stdout, exit_status, raised>>
       ELSE /\ desired_month' \in Clock
            /\ pc' = "construct_url"
            /\ UNCHANGED <<stdout, exit_status, raised>>
    /\ UNCHANGED <<script, args, environ, requests, notifVars, url, croissantVars,
                   stripVars, jobVars>>

\* site_metrics.py:49-52, 73-78
SiteMetricsParseDate == script = "site_metrics" /\ ParseDate(77)

\* The URL step both metrics scripts share: construct_url and the verbose print.
BuildUrl(built, src) ==
    /\ pc = "construct_url"
    /\ IF built = <<"ValueError">>
       THEN /\ Exit("1", <<"ValueError">>)
            /\ UNCHANGED <<url, stdout>>
       ELSE /\ url' = built
            /\ stdout' = stdout \o
                 VerbosePrint(args.verbose, Line(src, <<"Fetching data from ">> \o built, 0))
            /\ pc' = "fetch"
            /\ UNCHANGED <<exit_status, raised>>
    /\ UNCHANGED <<script, args, environ, requests, notifVars, desired_month,
                   croissantVars, stripVars, jobVars>>

\* site_metrics.py:54-57
SiteMetricsBuildUrl ==
    /\ script = "site_metrics"
    /\ BuildUrl(SiteMetricsConstructUrl(desired_month, args.id), 57)

\* site_metrics.py:59-70, 95-103: fetch once and print the first record.
SiteMetricsFetch ==
    /\ script = "site_metrics"
    /\ pc = "fetch"
    /\ requests' = requests + 1
    /\ \E outcome \in {"ok", "empty", "no_metrics", "error"} :
         CASE outcome = "error" ->
                /\ stdout' = Append(stdout,
                     Line(102, <<"Error fetching metrics from ">> \o url
                                \o <<": ", "<urlopen error ", FailureReason("URLError"), ">">>, 0))
                /\ Exit("1", <<>>)
           [] outcome = "empty" ->
                /\ stdout' = Append(stdout,
                     Line(62, <<"No metrics available. Add -v to see URL. Try -h for help.">>, 0))
                /\ Exit("1", <<>>)
           [] OTHER ->
                \E site \in Installations :
                  /\ stdout' = stdout \o
                       <<Line(68, <<"dvHubId", ": ", site.dvHubId>>, 0),
                         Line(68, <<"name", ": ", site.name>>, 0),
                         Line(68, <<"hostname", ": ", site.hostname>>, 0)>>
                       \o (IF outcome = "ok"
                           THEN <<Line(70, <<"recordDate", ": ">> \o Strftime(desired_month), 0),
                                  Line(70, <<"datasets", ": ", "1234">>, 0)>>
                           ELSE <<>>)
                  /\ IF outcome = "ok" THEN Exit("0", <<>>)
                     ELSE Exit("1", <<"IndexError">>)
    /\ UNCHANGED <<script, args, environ, notifVars, metricsVars, croissantVars,
                   stripVars, jobVars>>

(***************************************************************************)
(* metrics/num_installations.py: main().                                   *)
(***************************************************************************)
\* num_installations.py:30-33, 49-54
NumInstallationsParseDate == script = "num_installations" /\ ParseDate(53)

\* num_installations.py:35-38
NumInstallationsBuildUrl ==
    /\ script = "num_installations"
    /\ BuildUrl(NumInstallationsConstructUrl(desired_month), 38)

\* num_installations.py:40-46, 73-77: fetch once (no exception is caught) and
\* print the names or the count.
NumInstallationsFetch ==
    /\ script = "num_installations"
    /\ pc = "fetch"
    /\ requests' = requests + 1
    /\ \E outcome \in {"ok", "URLError", "JSONDecodeError"} :
         IF outcome = "ok"
         THEN \E metrics_json \in InstallationLists(MaxInstallations) :
                /\ stdout' = stdout \o
                     (IF args.list
                      THEN [i \in 1..Len(metrics_json) |->
                              Line(44, <<Sorted(metrics_json)[i].name>>, 0)]
                      ELSE <<Line(46, <<ToString(Len(metrics_json))>>, 0)>>)
                /\ Exit("0", <<>>)
         ELSE /\ Exit("1", <<outcome>>)
              /\ UNCHANGED stdout
    /\ UNCHANGED <<script, args, environ, notifVars, metricsVars, croissantVars,
                   stripVars, jobVars>>

(***************************************************************************)
(* download_draft_croissant/download_draft_croissant.py                    *)
(***************************************************************************)
RECURSIVE RStrip(_, _)
\* s.rstrip(c)
RStrip(s, c) ==
    IF s # <<>> /\ s[Len(s)] = c THEN RStrip(SubSeq(s, 1, Len(s) - 1), c) ELSE s

\* s.replace(a, b)
Replace(s, a, b) == [i \in 1..Len(s) |-> IF s[i] = a THEN b ELSE s[i]]

\* download_draft_croissant.py:80
CroissantUrl(base_url, p) ==
    RStrip(base_url, "/") \o <<"/api/datasets/export?exporter=croissant&persistentId=">>
        \o p \o <<"&version=:draft">>

\* The exports the server may return, as parsed dicts.
CroissantDocuments == {[name |-> "Darwin's Finches"], [name |-> "newTitle"]}

\* json.dumps(croissant_raw, indent=2)
CroissantDumps(document) ==
    <<"{\n  \"@type\": \"sc:Dataset\",\n  \"name\": \"", document.name, "\"\n}">>

\* datetime.now().strftime('%Y%m%d_%H%M%S'), the clock at the 13th, 10:15:00.
FileTimestamp(now) ==
    ZeroPad(now.year, 4) \o ZeroPad(now.month, 2)
        \o <<"1", "3", "_", "1", "0", "1", "5", "0", "0">>

\* download_draft_croissant.py:74
CroissantFilename(p, now) ==
    <<"croissant_">> \o Replace(Replace(p, ":", "_"), "/", "_") \o <<"_">>
        \o FileTimestamp(now) \o <<".json">>

\* download_draft_croissant.py:49-56
CroissantCheckToken == script = "croissant" /\ CheckToken(53)

\* download_draft_croissant.py:58-63, 84-100: build the URL and fetch once.
CroissantFetch ==
    /\ script = "croissant"
    /\ pc = "fetch"
    /\ requests' = requests + 1
    /\ url' = CroissantUrl(args.base_url, args.pid)
    /\ LET u == CroissantUrl(args.base_url, args.pid)
           l61 == VerbosePrint(args.verbose,
                               Line(61, <<"Fetching Croissant from ">> \o u, 0))
       IN  \E outcome \in FetchOutcomes :
             CASE outcome = "ok" ->
                    /\ croissant_raw' \in CroissantDocuments
                    /\ stdout' = stdout \o l61
                    /\ pc' = "save"
                    /\ UNCHANGED <<exit_status, raised>>
               [] outcome = "HTTPError" ->
                    /\ stdout' = stdout \o l61 \o
                         <<Line(91, <<"Error: Unable to fetch URL ">> \o u
                                    \o <<". Reason: ", FailureReason(outcome), ". Message: ", "[]">>, 0)>>
                    /\ Exit("1", <<>>)
                    /\ UNCHANGED croissant_raw
               [] outcome = "URLError" ->
                    /\ stdout' = stdout \o l61 \o
                         <<Line(99, <<"Error fetching Croissant from ">> \o u
                                    \o <<": ", "'URLError' object has no attribute 'readlines'">>, 0)>>
                    /\ Exit("1", <<>>)
                    /\ UNCHANGED croissant_raw
               [] outcome = "JSONDecodeError" ->
                    /\ stdout' = stdout \o l61 \o
                         <<Line(99, <<"Error fetching Croissant from ">> \o u
                                    \o <<": ", FailureReason(outcome)>>, 0)>>
                    /\ Exit("1", <<>>)
                    /\ UNCHANGED croissant_raw
    /\ UNCHANGED <<script, args, environ, notifVars, desired_month, files, stripVars, jobVars>>

\* download_draft_croissant.py:64-77: open the file and write the export.  With
\* --ugly croissant_final is the parsed dict: open() has created the file when
\* f.write(dict) raises TypeError.
CroissantSave ==
    /\ script = "croissant"
    /\ pc = "save"
    /\ \E now \in Clock :
         LET filename == CroissantFilename(args.pid, now)
         IN  IF args.ugly
             THEN /\ files' = Append(files, [name |-> filename, content |-> <<>>])
                  /\ Exit("1", <<"TypeError">>)
                  /\ UNCHANGED stdout
             ELSE /\ files' = Append(files, [name |-> filename,
                                             content |-> CroissantDumps(croissant_raw)])
                  /\ stdout' = Append(stdout,
                       Line(77, <<"Saved Croissant to ">> \o filename, 0))
                  /\ Exit("0", <<>>)
    /\ UNCHANGED <<script, args, environ, requests, notifVars, metricsVars,
                   croissant_raw, stripVars, jobVars>>

(***************************************************************************)
(* The runs of the scripts.                                                *)
(***************************************************************************)
StripIdle ==
    /\ text = <<>>
    /\ original = <<>>
    /\ passes = 0

OptionalTokens == {None, "xxxxxxxx-xxxx-xxxx-xxxx-xxxxxxxxxxxx"}

NotificationsInit ==
    /\ script = "notifications"
    /\ args \in [base_url : {"https://demo.dataverse.org"}, api_token : OptionalTokens,
                 verbose : BOOLEAN, ugly : BOOLEAN]
    /\ environ \in [API_TOKEN : OptionalTokens]
    /\ pc = "check_token"

CroissantInit ==
    /\ script = "croissant"
    /\ args \in [base_url : {<<"https://beta.dataverse.org">>,
                             <<"https://beta.dataverse.org", "/">>},
                 api_token : OptionalTokens,
                 pid : {<<"doi", ":", "10.5072", "/", "FK2", "/", "XXXXXX">>},
                 verbose : BOOLEAN, ugly : BOOLEAN]
    /\ environ \in [API_TOKEN : OptionalTokens]
    /\ pc = "check_token"

SiteMetricsInit ==
    /\ script = "site_metrics"
    /\ args \in [date : DateArgs, id : {None, "DVN_HARVARD_DATAVERSE_2008"},
                 list : BOOLEAN, verbose : BOOLEAN]
    /\ environ = [API_TOKEN |-> None]
    /\ pc = "start"

NumInstallationsInit ==
    /\ script = "num_installations"
    /\ args \in [date : DateArgs, list : BOOLEAN, verbose : BOOLEAN]
    /\ environ = [API_TOKEN |-> None]
    /\ pc = "parse_date"

Init ==
    /\ StripIdle
    /\ JobsIdle
    /\ stdout = <<>>
    /\ exit_status = "none"
    /\ raised = <<>>
    /\ requests = 0
    /\ json_raw = NoResponse
    /\ cursor = 0
    /\ desired_month = NoDate
    /\ url = <<>>
    /\ croissant_raw = NoDocument
    /\ files = <<>>
    /\ \/ NotificationsInit
       \/ CroissantInit
       \/ SiteMetricsInit
       \/ NumInstallationsInit

Next ==
    \/ NotificationsCheckToken
    \/ NotificationsFetch
    \/ NotificationsRender
    \/ NotificationsFinish
    \/ CroissantCheckToken
    \/ CroissantFetch
    \/ CroissantSave
    \/ SiteMetricsList
    \/ SiteMetricsCheckId
    \/ SiteMetricsParseDate
    \/ SiteMetricsBuildUrl
    \/ SiteMetricsFetch
    \/ NumInstallationsParseDate
    \/ NumInstallationsBuildUrl
    \/ NumInstallationsFetch

Spec == Init /\ [][Next]_vars

(***************************************************************************)
(* create-datasets-from-excel/create-datasets-from-excel.py.               *)
(***************************************************************************)
\* The two special characters clean() replaces, as tokens.
RightQuote == "U+2019"
EnDash == "U+2013"

\* A worksheet cell: its value (None, a str or a number) and its hyperlink
\* (<<>> when the cell has none).
Cell(kind, str, num, hyperlink) ==
    [kind |-> kind, str |-> str, num |-> num, hyperlink |-> hyperlink]

\* The data rows a worksheet may hold: the four cells after the key column.
RowPool ==
    { <<Cell("str", <<"Budget 2024">>, 0, <<>>),
        Cell("str", <<"The city", RightQuote, "s budget ", EnDash, " final">>, 0, <<>>),
        Cell("str", <<"Finance">>, 0, <<>>),
        Cell("str", <<"Open data portal">>, 0, <<"https://data.example.org/budget">>)>>,
      <<Cell("none", <<>>, 0, <<>>),
        Cell("int", <<>>, 2024, <<>>),
        Cell("none", <<>>, 0, <<>>),
        Cell("str", <<"Not online">>, 0, <<>>)>> }

Worksheets == UNION { [1..n -> RowPool] : n \in 0..MaxRows }

\* create-datasets-from-excel.py:60-67
clean(value) ==
    IF value.kind = "none" THEN <<>>
    ELSE IF value.kind = "str" THEN Replace(Replace(value.str, RightQuote, "'"), EnDash, "-")
    ELSE <<ToString(value.num)>>

\* create-datasets-from-excel.py:145
SleepSeconds == 2

\* One call of the script to the server or to time.sleep.
Call(op, p, ok, seconds) ==
    [op |-> op, run |-> run, row |-> row, pid |-> p, ok |-> ok, seconds |-> seconds]

\* The dataset initial-dataset.json describes, as the server stores it.
BaseDataset(p) ==
    [p_id |-> p, title |-> <<"Initial title">>, subject |-> <<"Medicine">>,
     description |-> <<"Initial description">>, author |-> <<"Initial author">>,
     affiliation |-> <<"Initial affiliation">>,
     contact_name |-> <<"Initial contact">>, contact_email |-> <<"initial@example.org">>,
     origin |-> <<>>]

\* str(x) of a value that may be None.
StrOrNone(x) == IF x = <<>> THEN <<"None">> ELSE x

\* create-datasets-from-excel.py:111-116
AccessLinkUrl(values) == values[4].hyperlink

\* create-datasets-from-excel.py:128-139: the fields the script sets on the
\* loaded dataset.
Updated(d, values) ==
    LET access_link_url == AccessLinkUrl(values)
    IN  [d EXCEPT !.title = clean(values[1]),
                  !.subject = <<"Other">>,
                  !.description = clean(values[2]),
                  !.author = clean(values[3]),
                  !.affiliation = <<>>,
                  !.contact_name = <<"Harvard Dataverse Support">>,
                  !.contact_email = <<"support@dataverse.harvard.edu">>,
                  !.origin = IF access_link_url # <<>>
                             THEN <<LT, "a href=\"">> \o access_link_url \o <<"\"", GT>>
                                  \o clean(values[4]) \o <<LT, "/a", GT>>
                             ELSE @]

BulkEnviron ==
    [SERVER_URL : {"http://localhost:8080"},
     API_TOKEN : {"3e2b87bf-6652-47f1-b0bb-ddc0aa1a9106"},
     COLLECTION : {"collection1"}]

\* create-datasets-from-excel.py:32-83: the first run, on an empty collection.
BulkInit ==
    /\ StripIdle
    /\ script = "create-datasets-from-excel"
    /\ args = <<>>
    /\ environ \in BulkEnviron
    /\ pc = "create"
    /\ stdout = <<>>
    /\ exit_status = "none"
    /\ raised = <<>>
    /\ requests = 0
    /\ json_raw = NoResponse
    /\ cursor = 0
    /\ desired_month = NoDate
    /\ url = <<>>
    /\ croissant_raw = NoDocument
    /\ files = <<>>
    /\ ws \in Worksheets
    /\ row = 0
    /\ pid = 0
    /\ dataset = NoDataset
    /\ server = <<>>
    /\ calls = <<>>
    /\ run = 1
    /\ PidIdle
    /\ GitIdle

\* create-datasets-from-excel.py:84-103: the loop takes the next row and
\* creates the base dataset; raise_for_status raises on an error response.
BulkCreate ==
    /\ script = "create-datasets-from-excel"
    /\ pc = "create"
    /\ row < Len(ws)
    /\ row' = row + 1
    /\ \E ok \in BOOLEAN :
         IF ok
         THEN /\ server' = Append(server, BaseDataset(Len(server) + 1))
              /\ pid' = Len(server) + 1
              /\ calls' = Append(calls, [Call("create", Len(server) + 1, TRUE, 0)
                                           EXCEPT !.row = row + 1])
              /\ pc' = "read_row"
              /\ UNCHANGED <<exit_status, raised>>
         ELSE /\ calls' = Append(calls, [Call("create", 0, FALSE, 0)
                                           EXCEPT !.row = row + 1])
              /\ Exit("1", <<"HTTPError">>)
              /\ UNCHANGED <<server, pid>>
    /\ UNCHANGED <<script, args, environ, stdout, cliVars, stripVars, pidVars, gitVars, ws, dataset, run>>

\* create-datasets-from-excel.py:105-122
BulkReadRow ==
    /\ script = "create-datasets-from-excel"
    /\ pc = "read_row"
    /\ LET values == ws[row]
       IN  stdout' = stdout \o
             <<Line(118, <<"Title: ">> \o clean(values[1]), row),
               Line(119, <<"Description: ">> \o clean(values[2]), row),
               Line(120, <<"Agency Responsible: ">> \o clean(values[3]), row),
               Line(121, <<"Access Link Name: ">> \o clean(values[4]), row),
               Line(122, <<"Access Link URL: ">> \o StrOrNone(AccessLinkUrl(values)), row)>>
    /\ pc' = "load"
    /\ UNCHANGED <<script, args, environ, exit_status, raised, cliVars, stripVars, pidVars, gitVars,
                   bulkVars>>

\* A load that takes the first dataset of the collection, whatever pid holds.
BulkLoadFirst ==
    /\ script = "create-datasets-from-excel"
    /\ pc = "load"
    /\ calls' = Append(calls, Call("load", 1, TRUE, 0))
    /\ dataset' = server[1]
    /\ pc' = "update"
    /\ UNCHANGED <<script, args, environ, stdout, exit_status, raised, cliVars,
                   stripVars, pidVars, gitVars, ws, row, pid, server, run>>

\* create-datasets-from-excel.py:125: load the dataset created for this row.
BulkLoad ==
    /\ script = "create-datasets-from-excel"
    /\ pc = "load"
    /\ \E ok \in BOOLEAN :
         /\ calls' = Append(calls, Call("load", pid, ok, 0))
         /\ IF ok
            THEN /\ dataset' = server[pid]
                 /\ pc' = "update"
                 /\ UNCHANGED <<exit_status, raised>>
            ELSE /\ Exit("1", <<"HTTPError">>)
                 /\ UNCHANGED dataset
    /\ UNCHANGED <<script, args, environ, stdout, cliVars, stripVars, pidVars, gitVars, ws, row, pid,
                   server, run>>

\* create-datasets-from-excel.py:128-142: set the fields and push them to the
\* server; update() raises when the server refuses.
BulkUpdate ==
    /\ script = "create-datasets-from-excel"
    /\ pc = "update"
    /\ dataset' = Updated(dataset, ws[row])
    /\ \E ok \in BOOLEAN :
         /\ calls' = Append(calls, Call("update", dataset.p_id, ok, 0))
         /\ IF ok
            THEN /\ server' = [server EXCEPT ![dataset.p_id] = Updated(dataset, ws[row])]
                 /\ pc' = "sleep"
                 /\ UNCHANGED <<exit_status, raised>>
            ELSE /\ Exit("1", <<"HTTPError">>)
                 /\ UNCHANGED server
    /\ UNCHANGED <<script, args, environ, stdout, cliVars, stripVars, pidVars, gitVars, ws, row, pid, run>>

\* create-datasets-from-excel.py:145
BulkSleep ==
    /\ script = "create-datasets-from-excel"
    /\ pc = "sleep"
    /\ calls' = Append(calls, Call("sleep", 0, TRUE, SleepSeconds))
    /\ pc' = "create"
    /\ UNCHANGED <<script, args, environ, stdout, exit_status, raised, cliVars,
                   stripVars, pidVars, gitVars, ws, row, pid, dataset, server, run>>

\* create-datasets-from-excel.py:84: iter_rows is exhausted and the script ends.
BulkFinish ==
    /\ script = "create-datasets-from-excel"
    /\ pc = "create"
    /\ row = Len(ws)
    /\ Exit("0", <<>>)
    /\ UNCHANGED <<script, args, environ, stdout, cliVars, stripVars, pidVars, gitVars, bulkVars>>

\* A re-run that goes on at the row the run before it ended at.
BulkRerunResume ==
    /\ script = "create-datasets-from-excel"
    /\ pc = "exited"
    /\ run < MaxRuns
    /\ run' = run + 1
    /\ row' = IF exit_status = "0" THEN 0 ELSE row - 1
    /\ pid' = 0
    /\ dataset' = NoDataset
    /\ stdout' = <<>>
    /\ pc' = "create"
    /\ exit_status' = "none"
    /\ raised' = <<>>
    /\ UNCHANGED <<script, args, environ, cliVars, stripVars, pidVars, gitVars, ws, server, calls>>

\* create-datasets-from-excel.py:72-83: the operator runs the script again on
\* the same worksheet; nothing of the run before is read.
BulkRerun ==
    /\ script = "create-datasets-from-excel"
    /\ pc = "exited"
    /\ run < MaxRuns
    /\ run' = run + 1
    /\ row' = 0
    /\ pid' = 0
    /\ dataset' = NoDataset
    /\ stdout' = <<>>
    /\ pc' = "create"
    /\ exit_status' = "none"
    /\ raised' = <<>>
    /\ UNCHANGED <<script, args, environ, cliVars, stripVars, pidVars, gitVars, ws, server, calls>>

BulkNext ==
    \/ BulkCreate
    \/ BulkReadRow
    \/ BulkLoad
    \/ BulkUpdate
    \/ BulkSleep
    \/ BulkFinish
    \/ BulkRerun

SpecBulk == BulkInit /\ [][BulkNext]_vars

(***************************************************************************)
(* pid_reports/dcpidreport.py and pid_reports/pidreport.py.                *)
(***************************************************************************)
IsLeap(year) == year % 4 = 0 /\ (year % 100 # 0 \/ year % 400 = 0)

DaysIn(year, month) ==
    IF month = 2 THEN (IF IsLeap(year) THEN 29 ELSE 28)
    ELSE IF month \in {4, 6, 9, 11} THEN 30 ELSE 31

Day(year, month, day) == [year |-> year, month |-> month, day |-> day]

\* dcpidreport.py:11   now.replace(day=1) + relativedelta(days=-1)
LastDayOfPreviousMonth(d) ==
    IF d.month = 1 THEN Day(d.year - 1, 12, 31)
    ELSE Day(d.year, d.month - 1, DaysIn(d.year, d.month - 1))

\* d + relativedelta(months=+1): the day is cut to the length of the month.
PlusOneMonth(d) ==
    LET year == IF d.month = 12 THEN d.year + 1 ELSE d.year
        month == IF d.month = 12 THEN 1 ELSE d.month + 1
    IN  Day(year, month, IF d.day > DaysIn(year, month) THEN DaysIn(year, month) ELSE d.day)

\* a <= b on datetimes; processmonth is either currentmonth itself or a
\* first day of a month at 00:00.
DateLeq(a, b) ==
    \/ a.year < b.year
    \/ a.year = b.year /\ a.month < b.month
    \/ a.year = b.year /\ a.month = b.month /\ a.day <= b.day

\* d.strftime("%m_%Y")
MonthStr(d) == ZeroPad(d.month, 2) \o <<"_">> \o ZeroPad(d.year, 4)

\* line.strip('\n')
StripNewlines(line) ==
    IF line # <<>> /\ line[1] = "\n" THEN RStrip(Tail(line), "\n") ELSE RStrip(line, "\n")

\* datetime.strptime(line, "%m_%Y"): NoDay stands for ValueError.
StrptimeMonth(line) ==
    IF /\ Len(line) = 7
       /\ \A i \in {1, 2, 4, 5, 6, 7} : line[i] \in DigitChars
       /\ line[3] = "_"
       /\ Number(SubSeq(line, 1, 2)) \in 1..12
       /\ Number(SubSeq(line, 4, 7)) >= 1
    THEN Day(Number(SubSeq(line, 4, 7)), Number(SubSeq(line, 1, 2)), 1)
    ELSE NoDay

\* The first day of the month k months before d.
MonthsBefore(d, k) ==
    LET index == d.year * 12 + (d.month - 1) - k
    IN  Day(index \div 12, (index % 12) + 1, 1)

\* The days the report scripts are started on.
ReportClock == { Day(y, m, 15) : y \in Years, m \in 1..12 }

\* What dcpidreportstate may hold when a run starts: nothing (no file), a
\* month an earlier run wrote (the last complete month or one up to MaxBacklog
\* months before it, a trailing newline added by hand), or a line in another
\* format.
StateFiles(d) ==
    {<<>>}
    \cup { MonthStr(MonthsBefore(LastDayOfPreviousMonth(d), k)) : k \in 0..MaxBacklog }
    \cup { MonthStr(MonthsBefore(LastDayOfPreviousMonth(d), 1)) \o <<"\n">>,
           Strftime(LastDayOfPreviousMonth(d)) }

Receivers == "admin@mydataverse.org,support@myinstitution.org"

DataverseBaseUrl == "https://data.yourdataverse.org"

\* dcpidreport.py:33
MailHead == <<"Subject: DataCite DOI Resolution Failure Reports\nTo: ", Receivers, "\n\n">>

\* dcpidreport.py:45
ReportHead(m) ==
    <<"Report for ">> \o m
        \o <<"\n\nHits\tDOI\tURI\n(Note: clicking links will record new failures unless these are drafts)\n">>

\* The failures a monthly report lists for the account: DOI and hit count.
ReportedFailures == <<[failpid |-> "doi:10.5072/FK2/ABCDEF", count |-> "3"]>>

\* dcpidreport.py:61
FailureLine(f) ==
    <<"\n", f.count, "\t", f.failpid, "\t", DataverseBaseUrl,
      "/dataset.xhtml?persistentId=", f.failpid>>

\* dcpidreport.py:76
NoReports(m) ==
    <<"No new monthly reports from DataCite. Next report expected: ">> \o m \o <<"\n\n">>

Event(op, m) == [op |-> op, month |-> m]

\* How the download of one monthly report can go: a report that lists
\* failures of the account, a report that does not name the account, a report
\* cut off in the account's list (next(html) raises StopIteration), an HTTP
\* error (the report is not published yet), a network error.
ReportOutcomes == {"failures", "no_account", "truncated", "HTTPError", "URLError"}

DcInit ==
    /\ StripIdle
    /\ BulkIdle
    /\ GitIdle
    /\ script = "dcpidreport"
    /\ args = <<>>
    /\ environ = <<>>
    /\ pc = "start"
    /\ stdout = <<>>
    /\ exit_status = "none"
    /\ raised = <<>>
    /\ requests = 0
    /\ json_raw = NoResponse
    /\ cursor = 0
    /\ desired_month = NoDate
    /\ url = <<>>
    /\ croissant_raw = NoDocument
    /\ files = <<>>
    /\ today \in ReportClock
    /\ statefile \in StateFiles(today)
    /\ logfile = NoLog
    /\ processmonth = NoDay
    /\ currentmonth = NoDay
    /\ found = TRUE
    /\ somereports = FALSE
    /\ monthstr = <<>>
    /\ mail = <<>>
    /\ sent = <<>>
    /\ events = <<>>

\* dcpidreport.py:11-36: the month to start at, from the state file if there
\* is one.
DcStart ==
    /\ script = "dcpidreport"
    /\ pc = "start"
    /\ currentmonth' = LastDayOfPreviousMonth(today)
    /\ mail' = MailHead
    /\ found' = TRUE
    /\ somereports' = FALSE
    /\ IF statefile = <<>>
       THEN /\ processmonth' = LastDayOfPreviousMonth(today)
            /\ pc' = "loop"
            /\ UNCHANGED <<events, exit_status, raised>>
       ELSE LET line == StripNewlines(statefile)
            IN  IF StrptimeMonth(line) = NoDay
                THEN /\ processmonth' = LastDayOfPreviousMonth(today)
                     /\ Exit("1", <<"ValueError">>)
                     /\ UNCHANGED events
                ELSE /\ processmonth' = PlusOneMonth(StrptimeMonth(line))
                     /\ events' = Append(events, Event("read", line))
                     /\ pc' = "loop"
                     /\ UNCHANGED <<exit_status, raised>>
    /\ UNCHANGED <<script, args, environ, stdout, cliVars, stripVars, bulkVars, gitVars, today,
                   statefile, logfile, monthstr, sent>>

\* An iteration that records the month in the state file before it downloads
\* the month's report.
DcFetchMonthWriteFirst ==
    /\ script = "dcpidreport"
    /\ pc = "loop"
    /\ DateLeq(processmonth, currentmonth) /\ found
    /\ monthstr' = MonthStr(processmonth)
    /\ requests' = requests + 1
    /\ statefile' = MonthStr(processmonth)
    /\ \E outcome \in {"failures", "HTTPError"} :
         LET m == MonthStr(processmonth)
         IN  IF outcome = "HTTPError"
             THEN /\ found' = FALSE
                  /\ events' = events \o <<Event("write", m), Event("httperror", m)>>
                  /\ UNCHANGED <<mail, somereports, processmonth>>
             ELSE /\ events' = events \o <<Event("write", m), Event("fetch", m),
                                           Event("parse", m)>>
                  /\ mail' = mail \o ReportHead(m) \o FailureLine(ReportedFailures[1])
                                  \o <<"\n\n">>
                  /\ somereports' = TRUE
                  /\ processmonth' = PlusOneMonth(processmonth)
                  /\ UNCHANGED found
    /\ UNCHANGED <<script, args, environ, pc, stdout, exit_status, raised, notifVars,
                   metricsVars, croissantVars, stripVars, bulkVars, gitVars, today, logfile,
                   currentmonth, sent>>

\* dcpidreport.py:37-74: one iteration of the month loop.
DcFetchMonth ==
    /\ script = "dcpidreport"
    /\ pc = "loop"
    /\ DateLeq(processmonth, currentmonth) /\ found
    /\ monthstr' = MonthStr(processmonth)
    /\ requests' = requests + 1
    /\ \E outcome \in ReportOutcomes :
         LET m == MonthStr(processmonth)
         IN  CASE outcome = "HTTPError" ->
                    /\ found' = FALSE
                    /\ events' = Append(events, Event("httperror", m))
                    /\ UNCHANGED <<pc, exit_status, raised, mail, somereports, statefile,
                                   processmonth>>
               [] outcome = "URLError" ->
                    /\ Exit("1", <<"URLError">>)
                    /\ UNCHANGED <<events, found, mail, somereports, statefile,
                                   processmonth>>
               [] outcome = "truncated" ->
                    /\ events' = Append(events, Event("fetch", m))
                    /\ mail' = mail \o ReportHead(m)
                    /\ somereports' = TRUE
                    /\ Exit("1", <<"StopIteration">>)
                    /\ UNCHANGED <<found, statefile, processmonth>>
               [] OTHER ->
                    /\ events' = events \o <<Event("fetch", m), Event("parse", m),
                                             Event("write", m)>>
                    /\ mail' = mail \o ReportHead(m)
                                    \o (IF outcome = "failures"
                                        THEN Concat([i \in 1..Len(ReportedFailures) |->
                                                       FailureLine(ReportedFailures[i])])
                                        ELSE <<>>)
                                    \o <<"\n\n">>
                    /\ somereports' = (somereports \/ outcome = "failures")
                    /\ statefile' = m
                    /\ processmonth' = PlusOneMonth(processmonth)
                    /\ UNCHANGED <<pc, exit_status, raised, found>>
    /\ UNCHANGED <<script, args, environ, stdout, notifVars, metricsVars, croissantVars,
                   stripVars, bulkVars, gitVars, today, logfile, currentmonth, sent>>

\* dcpidreport.py:37, 75-76: the loop condition fails; without reports the
\* mail names monthstr, which is bound only by an iteration of the loop.
DcEndLoop ==
    /\ script = "dcpidreport"
    /\ pc = "loop"
    /\ ~(DateLeq(processmonth, currentmonth) /\ found)
    /\ IF somereports
       THEN /\ pc' = "send"
            /\ UNCHANGED <<mail, exit_status, raised>>
       ELSE IF monthstr = <<>>
            THEN /\ Exit("1", <<"NameError">>)
                 /\ UNCHANGED mail
            ELSE /\ mail' = mail \o NoReports(monthstr)
                 /\ pc' = "send"
                 /\ UNCHANGED <<exit_status, raised>>
    /\ UNCHANGED <<script, args, environ, stdout, cliVars, stripVars, bulkVars, gitVars, today,
                   statefile, logfile, processmonth, currentmonth, found, somereports,
                   monthstr, sent, events>>

\* dcpidreport.py:79-82
DcSend ==
    /\ script = "dcpidreport"
    /\ pc = "send"
    /\ sent' = Append(sent, mail)
    /\ Exit("0", <<>>)
    /\ UNCHANGED <<script, args, environ, stdout, cliVars, stripVars, bulkVars, gitVars, today,
                   statefile, logfile, processmonth, currentmonth, found, somereports,
                   monthstr, mail, events>>

\* pidreport.py:18-19
blacklist == {"146.6.15.11"}

\* One data line of the PID failure log: pid, uri, method, ip and time,
\* separated by tabs.
LogLine(p, ip) ==
    [pid |-> p, uri |-> "/citation", method |-> "GET", ip |-> ip,
     time |-> "2025-03-01T10:15:00Z\n"]

LogLines ==
    { LogLine(p, ip) : p \in {"doi:10.5072/FK2/ABCDEF", "doi:10.5072/FK2/GH_IJK"},
                       ip \in {"146.6.15.11", "10.0.0.7"} }

\* The log of the month: [exists |-> FALSE] when the server logged no
\* failure, else the data lines after the header line.
LogFiles ==
    {NoLog}
    \cup UNION { { [exists |-> TRUE, lines |-> ls] : ls \in [1..n -> LogLines] } :
                 n \in 0..MaxLogLines }

PidReportInit ==
    /\ StripIdle
    /\ BulkIdle
    /\ GitIdle
    /\ script = "pidreport"
    /\ args = <<>>
    /\ environ = <<>>
    /\ pc = "check_file"
    /\ stdout = <<>>
    /\ exit_status = "none"
    /\ raised = <<>>
    /\ requests = 0
    /\ json_raw = NoResponse
    /\ cursor = 0
    /\ desired_month = NoDate
    /\ url = <<>>
    /\ croissant_raw = NoDocument
    /\ files = <<>>
    /\ today \in ReportClock
    /\ statefile = <<>>
    /\ logfile \in LogFiles
    /\ processmonth = NoDay
    /\ currentmonth = NoDay
    /\ found = TRUE
    /\ somereports = FALSE
    /\ monthstr = <<>>
    /\ mail = <<>>
    /\ sent = <<>>
    /\ events = <<>>

\* pidreport.py:1-26: the module binds log_dir, dataverse_base_url, the mail
\* settings and blacklist, then evaluates os.path.exists(filename); no
\* statement binds filename (nor message), so the lookup raises NameError and
\* the log is not opened.
PidReportCheckFile ==
    /\ script = "pidreport"
    /\ pc = "check_file"
    /\ Exit("1", <<"NameError">>)
    /\ UNCHANGED <<script, args, environ, stdout, cliVars, stripVars, bulkVars, gitVars, pidVars>>

PidInit == DcInit \/ PidReportInit

PidNext ==
    \/ DcStart
    \/ DcFetchMonth
    \/ DcEndLoop
    \/ DcSend
    \/ PidReportCheckFile

SpecPid == PidInit /\ [][PidNext]_vars

(***************************************************************************)
(* metrics/num_installations_git.py.                                       *)
(***************************************************************************)
\* d + timedelta(days=1)
PlusOneDay(d) ==
    IF d.day < DaysIn(d.year, d.month) THEN Day(d.year, d.month, d.day + 1)
    ELSE IF d.month < 12 THEN Day(d.year, d.month + 1, 1)
    ELSE Day(d.year + 1, 1, 1)

RECURSIVE DaysAfter(_, _)
DaysAfter(d, k) == IF k = 0 THEN d ELSE PlusOneDay(DaysAfter(d, k - 1))

DateLt(a, b) == DateLeq(a, b) /\ a # b

\* The history of main on GitHub: commit i was made on the i-th day after
\* 26 February, at noon.
CommitDate(i) == DaysAfter(Day(FirstYear, 2, 26), i)

InstallationHistory ==
    <<Installation("Harvard Dataverse", "DVN_HARVARD_DATAVERSE_2008", "dataverse.harvard.edu"),
      Installation("aussda", "DVN_AUSSDA_2017", "data.aussda.at"),
      Installation("DaRUS", "DVN_DARUS_2019", "darus.uni-stuttgart.de")>>

\* data/data.json as of commit i: installations join one by one, then the
\* list starts over.
DataAt(i) ==
    [installations |-> SubSeq(InstallationHistory, 1,
                              ((i - 1) % Len(InstallationHistory)) + 1)]

\* d.strftime("%Y-%m-%d")
DateStr(d) ==
    ZeroPad(d.year, 4) \o <<"-">> \o ZeroPad(d.month, 2) \o <<"-">> \o ZeroPad(d.day, 2)

\* str(d) of a datetime at midnight
DatetimeStr(d) == DateStr(d) \o <<" 00:00:00">>

\* datetime.strptime(date_str, "%Y-%m-%d"): NoDay stands for ValueError.
StrptimeDay(date_str) ==
    IF /\ Len(date_str) = 10
       /\ \A i \in {1, 2, 3, 4, 6, 7, 9, 10} : date_str[i] \in DigitChars
       /\ date_str[5] = "-" /\ date_str[8] = "-"
       /\ Number(SubSeq(date_str, 1, 4)) >= 1
       /\ Number(SubSeq(date_str, 6, 7)) \in 1..12
       /\ Number(SubSeq(date_str, 9, 10)) \in
              1..DaysIn(Number(SubSeq(date_str, 1, 4)), Number(SubSeq(date_str, 6, 7)))
    THEN Day(Number(SubSeq(date_str, 1, 4)), Number(SubSeq(date_str, 6, 7)),
             Number(SubSeq(date_str, 9, 10)))
    ELSE NoDay

\* What --date may hold: absent, a day from the day before the first commit
\* to the day after the last, or a month.
GitDateArgs ==
    {<<>>} \cup { DateStr(DaysAfter(Day(FirstYear, 2, 26), k)) : k \in 0..(MaxCommits + 1) }
           \cup { ZeroPad(FirstYear, 4) \o <<"-", "0", "3">> }

GitArgs == [date : GitDateArgs, list : BOOLEAN, verbose : BOOLEAN]

\* git rev-list -n 1 --before <date> main: the newest commit of the clone's
\* main made before the date, 0 for the empty output.
RevList(date) ==
    LET older == { i \in 1..local_main : DateLt(CommitDate(i), date) }
    IN  IF cloned /\ older # {} THEN CHOOSE i \in older : \A j \in older : j <= i ELSE 0

\* The commit the working tree of the clone is at.
WorkingTree == IF head = 0 THEN local_main ELSE head

Command(name, commit, ok) == [name |-> name, run |-> run, commit |-> commit, ok |-> ok]

\* The first run: no clone yet, main on GitHub has at least one commit.
GitInit ==
    /\ StripIdle
    /\ script = "num_installations_git"
    /\ args \in GitArgs
    /\ environ = <<>>
    /\ pc = "parse_date"
    /\ stdout = <<>>
    /\ exit_status = "none"
    /\ raised = <<>>
    /\ requests = 0
    /\ json_raw = NoResponse
    /\ cursor = 0
    /\ desired_month = NoDate
    /\ url = <<>>
    /\ croissant_raw = NoDocument
    /\ files = <<>>
    /\ ws = <<>>
    /\ row = 0
    /\ pid = 0
    /\ dataset = NoDataset
    /\ server = <<>>
    /\ calls = <<>>
    /\ run = 1
    /\ today = DaysAfter(Day(FirstYear, 2, 26), MaxCommits + 1)
    /\ statefile = <<>>
    /\ logfile = NoLog
    /\ processmonth = NoDay
    /\ currentmonth = NoDay
    /\ found = TRUE
    /\ somereports = FALSE
    /\ monthstr = <<>>
    /\ mail = <<>>
    /\ sent = <<>>
    /\ events = <<>>
    /\ cloned = FALSE
    /\ head = 0
    /\ local_main = 0
    /\ remote_main \in 1..MaxCommits
    /\ requested_date = NoDay
    /\ commit_hash = 0
    /\ data = NoData
    /\ commands = <<>>

\* num_installations_git.py:29-41, 70-75
GitParseDate ==
    /\ script = "num_installations_git"
    /\ pc = "parse_date"
    /\ IF args.date # <<>> /\ StrptimeDay(args.date) = NoDay
       THEN /\ stdout' = Append(stdout,
                 Line(74, <<"Invalid date format: ">> \o args.date
                          \o <<". Expected format is YYYY-MM-DD.">>, 0))
            /\ Exit("1", <<>>)
            /\ UNCHANGED requested_date
       ELSE LET d == IF args.date # <<>> THEN StrptimeDay(args.date) ELSE today
            IN  /\ requested_date' = d
                /\ stdout' = stdout
                     \o VerbosePrint(args.verbose,
                                     Line(40, <<"requested date ">> \o DatetimeStr(d), 0))
                     \o VerbosePrint(args.verbose,
                                     Line(41, <<"one day later ">>
                                              \o DatetimeStr(PlusOneDay(d)), 0))
                /\ pc' = "clone_or_pull"
                /\ UNCHANGED <<exit_status, raised>>
    /\ UNCHANGED <<script, args, environ, cliVars, stripVars, bulkVars, pidVars, cloned,
                   head, local_main, remote_main, commit_hash, data, commands>>

\* num_installations_git.py:43-45, 113-132: clone when the directory is
\* missing, else check out main and pull.  No return code is looked at: a
\* command that fails changes nothing and the script goes on.  git pull fails
\* on a detached HEAD.
GitCloneOrPull ==
    /\ script = "num_installations_git"
    /\ pc = "clone_or_pull"
    /\ IF ~cloned
       THEN \E ok \in BOOLEAN :
              /\ commands' = Append(commands, Command("clone", 0, ok))
              /\ cloned' = ok
              /\ local_main' = IF ok THEN remote_main ELSE local_main
              /\ UNCHANGED head
       ELSE \E checkout_ok, pull_ok \in BOOLEAN :
              LET pulled == pull_ok /\ (checkout_ok \/ head = 0)
              IN  /\ commands' = commands \o <<Command("checkout main", 0, checkout_ok),
                                               Command("pull", 0, pulled)>>
                  /\ head' = IF checkout_ok THEN 0 ELSE head
                  /\ local_main' = IF pulled THEN remote_main ELSE local_main
                  /\ UNCHANGED cloned
    /\ pc' = "get_commit_hash"
    /\ UNCHANGED <<script, args, environ, stdout, exit_status, raised, cliVars, stripVars,
                   bulkVars, pidVars, remote_main, requested_date, commit_hash, data>>

\* num_installations_git.py:47-54, 78-98
GitGetCommitHash ==
    /\ script = "num_installations_git"
    /\ pc = "get_commit_hash"
    /\ LET hash == RevList(PlusOneDay(requested_date))
       IN  /\ commit_hash' = hash
           /\ commands' = Append(commands, Command("rev-list", hash, cloned))
           /\ IF hash = 0
              THEN /\ stdout' = stdout
                        \o VerbosePrint(args.verbose, Line(50, <<"">>, 0))
                        \o <<Line(53, <<"No commit found before the specified date.">>, 0)>>
                   /\ Exit("1", <<>>)
              ELSE /\ stdout' = stdout
                        \o VerbosePrint(args.verbose, Line(50, <<ToString(hash)>>, 0))
                   /\ pc' = "checkout"
                   /\ UNCHANGED <<exit_status, raised>>
    /\ UNCHANGED <<script, args, environ, cliVars, stripVars, bulkVars, pidVars, cloned,
                   head, local_main, remote_main, requested_date, data>>

\* num_installations_git.py:56, 101-110: the return code of git checkout is
\* not looked at; the except clause sees only a git that cannot be started.
GitCheckout ==
    /\ script = "num_installations_git"
    /\ pc = "checkout"
    /\ \E ok \in BOOLEAN :
         /\ commands' = Append(commands, Command("checkout", commit_hash, ok))
         /\ head' = IF ok THEN commit_hash ELSE head
    /\ pc' = "load"
    /\ UNCHANGED <<script, args, environ, stdout, exit_status, raised, cliVars, stripVars,
                   bulkVars, pidVars, cloned, local_main, remote_main, requested_date,
                   commit_hash, data>>

\* num_installations_git.py:58-67, 135-145: read data/data.json of the
\* working tree and print the count or the sorted names.
GitLoad ==
    /\ script = "num_installations_git"
    /\ pc = "load"
    /\ data' = DataAt(WorkingTree)
    /\ commands' = Append(commands, Command("open", WorkingTree, TRUE))
    /\ LET installations == DataAt(WorkingTree).installations
       IN  stdout' = stdout \o
             (IF args.list
              THEN [i \in 1..Len(installations) |->
                      Line(65, <<Sorted(installations)[i].name>>, 0)]
              ELSE <<Line(67, <<ToString(Len(installations))>>, 0)>>)
    /\ Exit("0", <<>>)
    /\ UNCHANGED <<script, args, environ, cliVars, stripVars, bulkVars, pidVars, cloned,
                   head, local_main, remote_main, requested_date, commit_hash>>

\* The script is run again in the same directory, with new arguments; main
\* on GitHub may have new commits.
GitRerun ==
    /\ script = "num_installations_git"
    /\ pc = "exited"
    /\ run < MaxRuns
    /\ run' = run + 1
    /\ args' \in GitArgs
    /\ remote_main' \in remote_main..MaxCommits
    /\ requested_date' = NoDay
    /\ commit_hash' = 0
    /\ data' = NoData
    /\ stdout' = <<>>
    /\ pc' = "parse_date"
    /\ exit_status' = "none"
    /\ raised' = <<>>
    /\ UNCHANGED <<script, environ, cliVars, stripVars, ws, row, pid, dataset, server,
                   calls, pidVars, cloned, head, local_main, commands>>

GitNext ==
    \/ GitParseDate
    \/ GitCloneOrPull
    \/ GitGetCommitHash
    \/ GitCheckout
    \/ GitLoad
    \/ GitRerun

SpecGit == GitInit /\ [][GitNext]_vars

(***************************************************************************)
(* Properties.                                                             *)
(***************************************************************************)
\* The two metrics scripts, once construct_url has returned.
WindowBuilt == script \in {"site_metrics", "num_installations"} /\ url # <<>>

\* The fromDate and toDate values of the metrics URL, read back as months.
FromDate == SubSeq(url, 3, 9)
ToDate == SubSeq(url, 11, 17)

\* C1: in both metrics scripts the URL construct_url returns carries
\* fromDate = the input month Y-M and toDate = the calendar month right after
\* it: Y-(M+1) for M in 1..11 and (Y+1)-01 for M = 12.
C1_DateWindow ==
    WindowBuilt =>
        /\ url[2] = "?fromDate="
        /\ url[10] = "&toDate="
        /\ args.date # <<>> => FromDate = args.date
        /\ Strptime(FromDate) = desired_month
        /\ Strptime(ToDate) =
             IF desired_month.month = 12
             THEN [year |-> desired_month.year + 1, month |-> 1]
             ELSE [year |-> desired_month.year, month |-> desired_month.month + 1]

\* C1 witness: the input month 2025-12 gave fromDate=2025-12 and toDate=2026-01.
C1_RolloverBuilt ==
    /\ WindowBuilt
    /\ args.date = <<"2", "0", "2", "5", "-", "1", "2">>
    /\ FromDate = <<"2", "0", "2", "5", "-", "1", "2">>
    /\ ToDate = <<"2", "0", "2", "6", "-", "0", "1">>

\* Every "<" of s starts a match of the tag pattern: no "<" is nested in a tag
\* or left unclosed.
EveryLtOpensTag(s) == \A i \in 1..Len(s) : s[i] = LT => MatchEnd(s, i) # 0

\* C2 as stated: stripping an already-stripped string yields the same string,
\* for every input string.
C2_StripIdempotent == passes >= 1 => Strip(text) = text

\* C2 amended: stripping an already-stripped string yields the same string
\* whenever every "<" of the input string starts a match of the tag pattern.
C2_StripIdempotentClosedTags ==
    (passes >= 1 /\ EveryLtOpensTag(original)) => Strip(text) = text

\* C2 witness: an input whose every "<" opens a tag was stripped of its tags.
C2_TagsStripped ==
    /\ passes >= 1
    /\ EveryLtOpensTag(original)
    /\ HasTag(original)
    /\ text # original

\* The notification list of the response, json_raw["data"]["notifications"].
Notifications == json_raw.data.notifications

TypeOf(n) == n["type"][1]

\* The iterations of the loop that ran to their end on a record that carries
\* messageText: the notifications rendered so far.
Rendered ==
    IF script = "notifications"
    THEN { i \in 1..cursor : Has(Notifications[i], "messageText") }
    ELSE {}

\* The message of a printed line: the line without " " and the timestamp.
MessageOf(line) == SubSeq(line.text, 1, Len(line.text) - 2)

\* The anchor tags of a text: the opening "<a href=..." and the closing "</a>".
AnchorOpenings(s) ==
    Cardinality({ k \in 1..(Len(s) - 1) : s[k] = LT /\ s[k + 1] = "a href=\"" })

AnchorClosings(s) ==
    Cardinality({ k \in 1..(Len(s) - 1) : s[k] = LT /\ s[k + 1] = "/a" })

\* C3: for a rendered ASSIGNROLE notification the HTML message holds exactly
\* one anchor tag and the plain-text message derived from it holds none.
C3_AssignRoleOneAnchor ==
    \A i \in Rendered :
        TypeOf(Notifications[i]) = "ASSIGNROLE" =>
            /\ \E k \in 1..Len(stdout) :
                  /\ stdout[k].item = i /\ stdout[k].src = 94
                  /\ AnchorOpenings(MessageOf(stdout[k])) = 1
                  /\ AnchorClosings(MessageOf(stdout[k])) = 1
            /\ \E m \in 1..Len(stdout) :
                  /\ stdout[m].item = i /\ stdout[m].src = 156
                  /\ AnchorOpenings(stdout[m].text) = 0
                  /\ AnchorClosings(stdout[m].text) = 0
                  /\ ~HasTag(stdout[m].text)

\* C3 witness: an ASSIGNROLE notification was rendered in both forms.
C3_AssignRoleRendered ==
    \E i \in Rendered :
        /\ TypeOf(Notifications[i]) = "ASSIGNROLE"
        /\ \E m \in 1..Len(stdout) : stdout[m].item = i /\ stdout[m].src = 156

\* C4 as stated: for every notification taken whose type has no template, the
\* renderer prints the generic fallback string.
C4_FallbackForUntemplated ==
    script = "notifications" =>
        \A i \in 1..cursor :
            (Has(Notifications[i], "type")
             /\ TypeOf(Notifications[i]) \notin TemplatedTypes) =>
                \E k \in 1..Len(stdout) :
                    stdout[k].item = i /\ Contains(stdout[k].text, Fallback)

\* A record that lacks a payload field its declared type's branch reads.
LacksPayload(n) ==
    Has(n, "type") /\ \E f \in Range(ReadFields(TypeOf(n))) : ~Has(n, f)

\* A record that lacks any field the renderer reads for it.
LacksRequired(n) == ~Has(n, "type") \/ ~Has(n, "sentTimestamp") \/ LacksPayload(n)

C6_EmptyListSilent ==
    (script = "notifications" /\ json_raw.status = "OK" /\ Notifications = <<>>
     /\ ~args.verbose)
        => /\ stdout = <<>>
           /\ exit_status \in {"none", "0"}
           /\ pc = "exited" => exit_status = "0"
           /\ raised = <<>>

\* C6 witness: such a run has ended.
C6_EmptyListExited ==
    /\ script = "notifications"
    /\ json_raw.status = "OK"
    /\ Notifications = <<>>
    /\ ~args.verbose
    /\ pc = "exited"
    /\ exit_status = "0"

\* The lines the loop printed.
LoopOutput == SelectSeq(stdout, LAMBDA l : l.item > 0)

\* C7: the loop takes the notifications once each, in list order: what it has
\* printed is, block after block in list order, the output of each record
\* taken so far (then the partial output of the record whose lookup raised),
\* each block a function of its own record alone; a run that ends with status
\* 0 has taken every record.
C7_OnceInOrder ==
    script = "notifications" =>
        /\ cursor <= Len(Notifications)
        /\ LoopOutput =
             Concat([i \in 1..cursor |-> RenderIteration(Notifications[i], i).out])
             \o (IF raised # <<>>
                 THEN RenderIteration(Notifications[cursor + 1], cursor + 1).out
                 ELSE <<>>)
        /\ \A j, k \in 1..Len(stdout) : j < k => stdout[j].item <= stdout[k].item
        /\ \A i \in Rendered :
             Cardinality({ k \in 1..Len(stdout) :
                             stdout[k].item = i /\ stdout[k].src = 156 }) = 1
        /\ exit_status = "0" => cursor = Len(Notifications)

\* C7 witness: a list of two equal records was rendered to its end.
C7_DuplicateRendered ==
    /\ script = "notifications"
    /\ exit_status = "0"
    /\ Len(Notifications) = 2
    /\ Notifications[1] = Notifications[2]
    /\ Rendered = {1, 2}

\* The message the renderer decorates for a record: its type's template, or
\* the server's messageText when the type has none.
Decorated(n) ==
    IF TypeOf(n) \in TemplatedTypes THEN Template(TypeOf(n), n) ELSE n["messageText"]

HtmlLine(n) == IF TypeOf(n) \in TemplatedTypes THEN BranchPrintLine(TypeOf(n)) ELSE 78

\* C8: for every rendered notification both forms are on standard output, the
\* HTML-decorated message first and the tag-stripped message after it, each
\* followed by the notification's sentTimestamp.
C8_BothFormsWithTimestamp ==
    \A i \in Rendered :
        LET n == Notifications[i]
            html == Line(HtmlLine(n), Decorated(n) \o <<" ">> \o n["sentTimestamp"], i)
            plain == Line(156, Strip(Decorated(n)) \o <<" ">> \o n["sentTimestamp"], i)
        IN  \E k \in 1..Len(stdout) :
                /\ stdout[k] = html
                /\ \E m \in (k + 1)..Len(stdout) : stdout[m] = plain

\* C8 witness: a notification whose decorated message holds tags was rendered.
C8_DecoratedRendered ==
    \E i \in Rendered :
        /\ HasTag(Decorated(Notifications[i]))
        /\ \E m \in 1..Len(stdout) : stdout[m].item = i /\ stdout[m].src = 156

\* C9 as stated: for each rendered notification of a templated type with
\* payload, every payload field the renderer reads for the type appears in the
\* rendered HTML message.
C9_FieldsInterpolated ==
    \A i \in Rendered :
        LET n == Notifications[i]
        IN  TypeOf(n) \in {"SUBMITTEDDS", "CREATEACC", "REQUESTFILEACCESS", "RETURNEDDS"} =>
                \E k \in 1..Len(stdout) :
                    /\ stdout[k].item = i
                    /\ stdout[k].src = BranchPrintLine(TypeOf(n))
                    /\ \A f \in Range(ReadFields(TypeOf(n))) :
                           Contains(stdout[k].text, n[f])

\* The run lacks what its script requires: the token in the notification and
\* Croissant scripts, both --id and --list in site_metrics.
RequiredMissing ==
    \/ /\ script \in {"notifications", "croissant"}
       /\ ~Truthy(args.api_token)
       /\ ~Truthy(environ.API_TOKEN)
    \/ /\ script = "site_metrics"
       /\ ~Truthy(args.id)
       /\ ~args.list

\* C10: a run that lacks its required token or argument issues no network
\* request, and ends by printing one message and exiting with a non-zero
\* status.
C10_MissingRequiredExits ==
    RequiredMissing =>
        /\ requests = 0
        /\ pc \in {"check_token", "start", "exited"}
        /\ pc = "exited" =>
             /\ exit_status = "1"
             /\ Len(stdout) = 1
             /\ stdout[1].src \in {46, 47, 53}

\* C10 witness: a site_metrics run without --id and --list has exited.
C10_MissingIdExited ==
    /\ script = "site_metrics"
    /\ RequiredMissing
    /\ pc = "exited"
    /\ exit_status = "1"

\* The run made its request and ended without a parsed response.
FetchFailed ==
    /\ pc = "exited"
    /\ requests = 1
    /\ \/ script = "notifications" /\ json_raw = NoResponse
       \/ script = "croissant" /\ croissant_raw = NoDocument
       \/ script = "site_metrics" /\ stdout # <<>> /\ stdout[Len(stdout)].src = 102

\* The lines a failed fetch may leave on standard output: the verbose
\* announcement of the URL and the error line of the fetch function.
FetchLines == {55, 61, 192, 200, 91, 99, 102}

\* C11 as stated: a run of the notification, Croissant or site-metrics script
\* whose fetch failed made exactly one request, exited with a non-zero status,
\* rendered, printed and wrote nothing after the failure, and its last printed
\* line holds the reason of the failure.
C11_FetchFailurePrintsReason ==
    FetchFailed =>
        /\ exit_status = "1"
        /\ requests = 1
        /\ files = <<>>
        /\ \A k \in 1..Len(stdout) : stdout[k].src \in FetchLines
        /\ stdout # <<>>
        /\ \E outcome \in FetchOutcomes \ {"ok"} :
               Contains(stdout[Len(stdout)].text, <<FailureReason(outcome)>>)

\* Whether call j is the first call of its run.
FirstOfRun(j) == j = 1 \/ calls[j - 1].run < calls[j].run

\* Whether call j follows, in the same run and for the same row, a successful
\* call of the given kind.
Follows(j, op) ==
    /\ j > 1
    /\ calls[j - 1].op = op
    /\ calls[j - 1].ok
    /\ calls[j - 1].run = calls[j].run
    /\ calls[j - 1].row = calls[j].row

\* C12: in the bulk creator every row's steps come in the order create, load
\* by the persistent id that create returned, update, delay; a create follows
\* the delay of the row before it (or starts the run); each update is sent to
\* the dataset created for its own row and leaves that row's fields on it;
\* a run that ends with status 0 has made the four steps for every data row.
C12_RowStepsInOrder ==
    script = "create-datasets-from-excel" =>
        /\ \A j \in 1..Len(calls) :
             LET c == calls[j]
             IN  /\ c.op = "create" =>
                       \/ FirstOfRun(j) /\ c.row = 1
                       \/ /\ calls[j - 1].op = "sleep"
                          /\ calls[j - 1].run = c.run
                          /\ calls[j - 1].row = c.row - 1
                 /\ c.op = "load" => Follows(j, "create") /\ c.pid = calls[j - 1].pid
                 /\ c.op = "update" => Follows(j, "load") /\ c.pid = calls[j - 1].pid
                 /\ c.op = "sleep" => Follows(j, "update") /\ c.seconds = SleepSeconds
                 /\ (c.op = "update" /\ c.ok) =>
                       server[c.pid] = Updated(BaseDataset(c.pid), ws[c.row])
        /\ exit_status = "0" =>
             Len(SelectSeq(calls, LAMBDA c : c.run = run)) = 4 * Len(ws)

\* C12 witness: a first run over two data rows has ended with status 0.
C12_TwoRowsDone ==
    /\ script = "create-datasets-from-excel"
    /\ run = 1
    /\ Len(ws) = 2
    /\ exit_status = "0"
    /\ Len(calls) = 8
    /\ calls[7].op = "update" /\ calls[7].pid = 2

\* C13: the bulk creator has no resumption: a failed call is the last call of
\* its run, which ends with status 1, so no dataset is created for a later
\* row; the datasets updated before the failure keep their rows' fields;
\* every run starts with the create of the first data row, and every create
\* makes a new dataset, also for a row an earlier run has done.
C13_NoResumption ==
    script = "create-datasets-from-excel" =>
        /\ \A j \in 1..Len(calls) :
             LET c == calls[j]
             IN  /\ ~c.ok =>
                       /\ j = Len(calls) \/ calls[j + 1].run > c.run
                       /\ (j = Len(calls) /\ c.run = run) =>
                              pc = "exited" /\ exit_status = "1"
                 /\ FirstOfRun(j) => c.op = "create" /\ c.row = 1
                 /\ (c.op = "create" /\ c.ok) =>
                       /\ c.pid \in 1..Len(server)
                       /\ \A i \in 1..(j - 1) : calls[i].pid # c.pid
                 /\ (c.op = "update" /\ c.ok) =>
                       server[c.pid] = Updated(BaseDataset(c.pid), ws[c.row])
        /\ (pc = "exited" /\ exit_status = "1") =>
               /\ calls # <<>>
               /\ ~calls[Len(calls)].ok

\* C13 witness: the first run updated row 1 and failed at row 2, and the
\* re-run has created a second dataset for row 1.
C13_RerunAfterFailure ==
    /\ script = "create-datasets-from-excel"
    /\ run = 2
    /\ \E j \in 1..(Len(calls) - 1) :
         /\ calls[j].run = 1 /\ calls[j].row = 2 /\ ~calls[j].ok
         /\ calls[j + 1] = [op |-> "create", run |-> 2, row |-> 1, pid |-> calls[j + 1].pid,
                            ok |-> TRUE, seconds |-> 0]
         /\ calls[j + 1].pid > 1
    /\ server[1] = Updated(BaseDataset(1), ws[1])

\* C14 as stated: a Croissant run that had a token and fetched valid JSON,
\* with --ugly or without, has at its end written the fetched export to one
\* file named croissant_{pid}_{timestamp}.json and printed last that it was
\* saved.
C14_ExportWritten ==
    (script = "croissant" /\ pc = "exited" /\ croissant_raw # NoDocument) =>
        /\ Len(files) = 1
        /\ \E now \in Clock : files[1].name = CroissantFilename(args.pid, now)
        /\ Contains(files[1].content, <<croissant_raw.name>>)
        /\ stdout # <<>>
        /\ stdout[Len(stdout)] = Line(77, <<"Saved Croissant to ">> \o files[1].name, 0)
        /\ exit_status = "0"

\* The data lines of the log for identifier p that come from an IP that is
\* not blacklisted, and the data lines from blacklisted IPs.
Hits(p) ==
    Cardinality({ i \in 1..Len(logfile.lines) :
                    logfile.lines[i].pid = p /\ logfile.lines[i].ip \notin blacklist })

BlacklistedEntries ==
    Cardinality({ i \in 1..Len(logfile.lines) : logfile.lines[i].ip \in blacklist })

\* C15 as stated: a run of the PID failure reporter on an existing log ends
\* with one mail sent in which every identifier with a hit from an IP that is
\* not blacklisted is reported with the number of such hits, no other
\* identifier is reported, and the blacklisted entries are counted apart.
C15_HitCountsReported ==
    (script = "pidreport" /\ pc = "exited" /\ logfile.exists) =>
        /\ Len(sent) = 1
        /\ \A i \in 1..Len(logfile.lines) :
             LET p == logfile.lines[i].pid
             IN  IF Hits(p) > 0
                 THEN Contains(sent[1], <<"\n", ToString(Hits(p)), "\t", p, "\t">>)
                 ELSE ~Contains(sent[1], <<"\t", p, "\t">>)
        /\ BlacklistedEntries > 0 =>
             Contains(sent[1], <<ToString(BlacklistedEntries)>>)

\* The downloads tried so far, in order.
Attempts == SelectSeq(events, LAMBDA e : e.op \in {"fetch", "httperror"})

Writes == SelectSeq(events, LAMBDA e : e.op = "write")

\* C16: in dcpidreport the months tried are consecutive and start at the
\* month after the one read from the state file; a month is written to the
\* state file only right after its report was downloaded and parsed; the state
\* file holds the last month written (the month read, while none is written);
\* after an HTTP error on month m the loop has stopped and the state file, if
\* there is one, holds the month before m.
C16_StateOnlyAdvances ==
    script = "dcpidreport" =>
        /\ \A j \in 1..Len(events) :
             events[j].op = "write" =>
                 /\ j >= 3
                 /\ events[j - 1] = Event("parse", events[j].month)
                 /\ events[j - 2] = Event("fetch", events[j].month)
        /\ \A j \in 2..Len(Attempts) :
             StrptimeMonth(Attempts[j].month)
                 = PlusOneMonth(StrptimeMonth(Attempts[j - 1].month))
        /\ (events # <<>> /\ events[1].op = "read") =>
             /\ Attempts # <<>> =>
                  StrptimeMonth(Attempts[1].month)
                      = PlusOneMonth(StrptimeMonth(events[1].month))
             /\ Writes = <<>> => StripNewlines(statefile) = events[1].month
        /\ Writes # <<>> => statefile = Writes[Len(Writes)].month
        /\ \A j \in 1..Len(events) :
             events[j].op = "httperror" =>
                 /\ j = Len(events)
                 /\ ~found
                 /\ statefile # <<>> =>
                      PlusOneMonth(StrptimeMonth(StripNewlines(statefile)))
                          = StrptimeMonth(events[j].month)

\* C16 witness: a run that read the state file wrote one month and got an HTTP
\* error on the month after it.
C16_StoppedAtHttpError ==
    /\ script = "dcpidreport"
    /\ Len(events) = 5
    /\ events[1].op = "read"
    /\ events[4].op = "write"
    /\ events[5].op = "httperror"
    /\ statefile = events[4].month

\* C17 as stated: a run of dcpidreport that ended without an error other than
\* an HTTP error on a download has sent exactly one mail and exited with
\* status 0, and when no report was downloaded the mail names the next
\* expected month.
C17_AlwaysOneSummary ==
    (/\ script = "dcpidreport"
     /\ pc = "exited"
     /\ raised \notin {<<"URLError">>, <<"StopIteration">>, <<"ValueError">>}) =>
        /\ exit_status = "0"
        /\ Len(sent) = 1
        /\ (\A j \in 1..Len(events) : events[j].op # "fetch") =>
               Contains(sent[1], NoReports(MonthStr(processmonth)))

\* The names of the commands of the current run, in order.
RunCommands ==
    LET mine == SelectSeq(commands, LAMBDA c : c.run = run)
    IN  [i \in 1..Len(mine) |-> mine[i].name]

IsPrefix(a, b) == Len(a) <= Len(b) /\ a = SubSeq(b, 1, Len(a))

\* C18 as stated: in every run of num_installations_git the commands come in
\* the order clone (or checkout main, pull), rev-list, checkout, open; a run
\* that ends with status 0 has read the data file of the commit it chose for
\* its date; a run that found no commit has ended with status 1 without
\* checkout or read.
C18_ReadsChosenCommit ==
    script = "num_installations_git" =>
        /\ \/ IsPrefix(RunCommands, <<"clone", "rev-list", "checkout", "open">>)
           \/ IsPrefix(RunCommands, <<"checkout main", "pull", "rev-list", "checkout", "open">>)
        /\ (pc = "exited" /\ exit_status = "0") =>
               /\ commands[Len(commands)] = Command("open", commit_hash, TRUE)
               /\ commit_hash = RevList(PlusOneDay(requested_date))
               /\ data = DataAt(commit_hash)
        /\ (pc = "exited" /\ requested_date # NoDay /\ commit_hash = 0) =>
               /\ exit_status = "1"
               /\ \A i \in 1..Len(RunCommands) : RunCommands[i] \notin {"checkout", "open"}

\* C19: every line a loop iteration printed belongs to a record that carries
\* messageText, the lines of the type dispatch and of the tag strip included,
\* and a KeyError is raised only by a record that carries messageText: a
\* record without messageText prints nothing and raises nothing, whatever
\* else it lacks.
C19_NoTextNoOutput ==
    script = "notifications" =>
        /\ \A k \in 1..Len(stdout) :
             stdout[k].item > 0 => Has(Notifications[stdout[k].item], "messageText")
        /\ raised # <<>> => Has(Notifications[cursor + 1], "messageText")
        /\ \A i \in 1..cursor :
             ~Has(Notifications[i], "messageText") =>
                 RenderIteration(Notifications[i], i).out = <<>>

\* C19 witness: a run whose list holds a record without any field, and one
\* that has a type but no messageText, ended with status 0 and no loop output.
C19_EmptyRecordSkipped ==
    /\ script = "notifications"
    /\ exit_status = "0"
    /\ Len(Notifications) = 2
    /\ DOMAIN Notifications[1] = {}
    /\ Has(Notifications[2], "type") /\ ~Has(Notifications[2], "messageText")
    /\ cursor = 2
    /\ LoopOutput = <<>>

====
